---- MODULE Spec2Model ----
(***************************************************************************)
(* Model of the SMART-goal pipeline: the output coercer (_coerce_json,     *)
(* clean_json_str), the goal normalizer, the evaluation plan builder and   *)
(* the analyzer / evaluator runtime entrypoints.                           *)
(*                                                                         *)
(* Text is a sequence of one-character strings.  A JSON value is a tagged  *)
(* record: [t |-> "str", v |-> text], [t |-> "num", v |-> n],              *)
(* [t |-> "arr", v |-> <<values>>], [t |-> "obj", v |-> <<[k, v]>>] with   *)
(* the members of an object in insertion order and their keys distinct     *)
(* (a Python dict).                                                        *)
(***************************************************************************)
EXTENDS Integers, Sequences, FiniteSets, TLC

VARIABLES
    input,      \* the value handed to the operation under check
    result,     \* what the operation returned or raised
    again,      \* what the operation returned on its own serialized output
    goals,      \* the normalized smart_goals, or the exception of the loop
    stage,      \* position of the caller: "in", then one value per call made
    locals,     \* the local variables of a running entrypoint
    effects,    \* what the entrypoints did outside: calls made, files written
    response    \* what an entrypoint returned, or the exception it let out

vars == <<input, result, again, goals, stage, locals, effects, response>>

\* the variables only the runtime entrypoints use
rtvars == <<locals, effects, response>>

None == [kind |-> "none"]

\* ------------------------------------------------------------------ text

WS == {" ", "\n"}

\* the half-width of the diagnostic window of _coerce_json
SnippetRadius == 80

Digits == {"0", "1", "2", "3", "4", "5", "6", "7", "8", "9"}

DigitVal(c) ==
    CASE c = "0" -> 0 [] c = "1" -> 1 [] c = "2" -> 2 [] c = "3" -> 3
      [] c = "4" -> 4 [] c = "5" -> 5 [] c = "6" -> 6 [] c = "7" -> 7
      [] c = "8" -> 8 [] c = "9" -> 9

Max2(a, b) == IF a >= b THEN a ELSE b

Min2(a, b) == IF a <= b THEN a ELSE b

\* s[a..b] as a text (empty when a > b)
Slice(s, a, b) == IF a > b THEN <<>> ELSE SubSeq(s, a, b)

\* str.find(c) / str.rfind(c), 1-based, 0 when absent (Python's -1)
Find(s, c) ==
    IF \E i \in 1..Len(s) : s[i] = c
    THEN CHOOSE i \in 1..Len(s) : s[i] = c /\ \A j \in 1..(i - 1) : s[j] # c
    ELSE 0

RFind(s, c) ==
    IF \E i \in 1..Len(s) : s[i] = c
    THEN CHOOSE i \in 1..Len(s) : s[i] = c /\ \A j \in (i + 1)..Len(s) : s[j] # c
    ELSE 0

\* str.strip(): leading and trailing whitespace removed
Strip(s) ==
    IF \A i \in 1..Len(s) : s[i] \in WS
    THEN <<>>
    ELSE LET a == CHOOSE i \in 1..Len(s) :
                      s[i] \notin WS /\ \A j \in 1..(i - 1) : s[j] \in WS
             b == CHOOSE i \in 1..Len(s) :
                      s[i] \notin WS /\ \A j \in (i + 1)..Len(s) : s[j] \in WS
         IN  SubSeq(s, a, b)

\* first index >= i holding no whitespace (Len(s)+1 when there is none)
SkipWS(s, i) ==
    IF \E k \in i..Len(s) : s[k] \notin WS
    THEN CHOOSE k \in i..Len(s) :
             s[k] \notin WS /\ \A j \in i..(k - 1) : s[j] \in WS
    ELSE Max2(i, Len(s) + 1)

\* ------------------------------------------------------- clean_json_str

\* a match of the pattern ,\s*([}\]]) starts at i
TrailingCommaAt(s, i) ==
    /\ s[i] = ","
    /\ LET j == SkipWS(s, i + 1) IN j <= Len(s) /\ s[j] \in {"}", "]"}

\* re.sub(r",\s*([}\]])", r"\1", s): scanning from i, the text up to the next
\* match is copied, and the match, a comma followed by optional whitespace
\* and a closing bracket, is replaced by the bracket.
RECURSIVE SubTrailingCommas(_, _)
SubTrailingCommas(s, i) ==
    IF \E c \in i..Len(s) : TrailingCommaAt(s, c)
    THEN LET c == CHOOSE c \in i..Len(s) :
                      /\ TrailingCommaAt(s, c)
                      /\ \A b \in i..(c - 1) : ~TrailingCommaAt(s, b)
             j == SkipWS(s, c + 1)
         IN  Slice(s, i, c - 1) \o <<s[j]>> \o SubTrailingCommas(s, j + 1)
    ELSE Slice(s, i, Len(s))

\* s[:last_brace+1] with last_brace = max(s.rfind("}"), s.rfind("]"))
TruncateAtLastBrace(s) ==
    LET last_brace == Max2(RFind(s, "}"), RFind(s, "]"))
    IN  IF last_brace # 0 THEN SubSeq(s, 1, last_brace) ELSE s

clean_json_str(s) == TruncateAtLastBrace(SubTrailingCommas(s, 1))

\* ------------------------------------------------------------ json.loads
\* The decoder of the standard library, on the characters the model's texts
\* use: objects, arrays, strings without escapes, non-negative integers.
\* A position i is 1-based; a failure carries e.pos, which is 0-based.
\* A success is [ok |-> TRUE, val, end] with end the index after the value.

Str(s) == [t |-> "str", v |-> s]

Num(n) == [t |-> "num", v |-> n]

Arr(xs) == [t |-> "arr", v |-> xs]

Obj(ms) == [t |-> "obj", v |-> ms]

Fail(p) == [ok |-> FALSE, pos |-> p]

Done(v, e) == [ok |-> TRUE, val |-> v, end |-> e]

CharAt(s, i) == IF i >= 1 /\ i <= Len(s) THEN s[i] ELSE ""

\* dict(pairs): a repeated key keeps its first place and takes the last value
DictSet(ms, k, v) ==
    IF \E n \in 1..Len(ms) : ms[n].k = k
    THEN [n \in 1..Len(ms) |-> IF ms[n].k = k THEN [k |-> k, v |-> v] ELSE ms[n]]
    ELSE Append(ms, [k |-> k, v |-> v])

\* py_scanstring from i, the index after the opening quote
RECURSIVE scanstring(_, _, _)
scanstring(s, i, acc) ==
    IF i > Len(s) THEN Fail(i - Len(acc) - 2)          \* Unterminated string
    ELSE IF s[i] = "\"" THEN Done(acc, i + 1)
    ELSE IF s[i] = "\n" THEN Fail(i - 1)               \* Invalid control character
    ELSE scanstring(s, i + 1, Append(acc, s[i]))

\* NUMBER_RE: 0 | [1-9][0-9]*
RECURSIVE scannumber(_, _, _)
scannumber(s, i, n) ==
    IF i <= Len(s) /\ s[i] \in Digits
    THEN scannumber(s, i + 1, 10 * n + DigitVal(s[i]))
    ELSE Done(Num(n), i)

RECURSIVE scan_once(_, _)
RECURSIVE ObjectMembers(_, _, _)
RECURSIVE ArrayElements(_, _, _)

\* JSONObject from i, the index after "{"
JSONObject(s, i) ==
    LET j == SkipWS(s, i)
    IN  IF CharAt(s, j) = "}" THEN Done(Obj(<<>>), j + 1)
        ELSE IF CharAt(s, j) # "\"" THEN Fail(j - 1)   \* Expecting property name
        ELSE ObjectMembers(s, j + 1, <<>>)

\* the loop of JSONObject, from i, the index after a key's opening quote
ObjectMembers(s, i, ms) ==
    LET key == scanstring(s, i, <<>>)
    IN  IF ~key.ok THEN key
        ELSE LET c == SkipWS(s, key.end)
             IN  IF CharAt(s, c) # ":" THEN Fail(c - 1)      \* Expecting ':'
                 ELSE LET val == scan_once(s, SkipWS(s, c + 1))
                      IN  IF ~val.ok THEN val
                          ELSE LET d   == SkipWS(s, val.end)
                                   ms2 == DictSet(ms, key.val, val.val)
                               IN  IF CharAt(s, d) = "}" THEN Done(Obj(ms2), d + 1)
                                   ELSE IF CharAt(s, d) # "," THEN Fail(d - 1)
                                   ELSE LET q == SkipWS(s, d + 1)
                                        IN  IF CharAt(s, q) # "\"" THEN Fail(q - 1)
                                            ELSE ObjectMembers(s, q + 1, ms2)

\* JSONArray from i, the index after "["
JSONArray(s, i) ==
    LET j == SkipWS(s, i)
    IN  IF CharAt(s, j) = "]" THEN Done(Arr(<<>>), j + 1)
        ELSE ArrayElements(s, j, <<>>)

\* the loop of JSONArray, from i, the index of the next element
ArrayElements(s, i, xs) ==
    LET val == scan_once(s, i)
    IN  IF ~val.ok THEN val
        ELSE LET d == SkipWS(s, val.end)
             IN  IF CharAt(s, d) = "]" THEN Done(Arr(Append(xs, val.val)), d + 1)
                 ELSE IF CharAt(s, d) # "," THEN Fail(d - 1)  \* Expecting ','
                 ELSE ArrayElements(s, SkipWS(s, d + 1), Append(xs, val.val))

scan_once(s, i) ==
    LET c == CharAt(s, i)
    IN  IF c = "\"" THEN LET r == scanstring(s, i + 1, <<>>)
                         IN  IF r.ok THEN Done(Str(r.val), r.end) ELSE r
        ELSE IF c = "{" THEN JSONObject(s, i + 1)
        ELSE IF c = "[" THEN JSONArray(s, i + 1)
        ELSE IF c = "0" THEN Done(Num(0), i + 1)
        ELSE IF c \in Digits THEN scannumber(s, i, 0)
        ELSE Fail(i - 1)                                      \* Expecting value

\* JSONDecoder.decode: one value, whitespace around it, nothing after it
json_loads(s) ==
    LET r == scan_once(s, SkipWS(s, 1))
    IN  IF ~r.ok THEN r
        ELSE LET e == SkipWS(s, r.end)
             IN  IF e # Len(s) + 1 THEN Fail(e - 1)           \* Extra data
                 ELSE r

\* ------------------------------------------------------------ json.dumps
\* Separators ", " and ": ".  The model's strings hold no quote, backslash
\* or control character, so no character is escaped.

DigitChar(d) ==
    CASE d = 0 -> "0" [] d = 1 -> "1" [] d = 2 -> "2" [] d = 3 -> "3"
      [] d = 4 -> "4" [] d = 5 -> "5" [] d = 6 -> "6" [] d = 7 -> "7"
      [] d = 8 -> "8" [] d = 9 -> "9"

RECURSIVE NatText(_)
NatText(n) ==
    IF n < 10 THEN <<DigitChar(n)>>
    ELSE Append(NatText(n \div 10), DigitChar(n % 10))

Quoted(s) == <<"\"">> \o s \o <<"\"">>

RECURSIVE json_dumps(_)
RECURSIVE DumpItems(_, _)
RECURSIVE DumpMembers(_, _)

DumpItems(xs, n) ==
    IF n > Len(xs) THEN <<>>
    ELSE (IF n > 1 THEN <<",", " ">> ELSE <<>>)
         \o json_dumps(xs[n]) \o DumpItems(xs, n + 1)

DumpMembers(ms, n) ==
    IF n > Len(ms) THEN <<>>
    ELSE (IF n > 1 THEN <<",", " ">> ELSE <<>>)
         \o Quoted(ms[n].k) \o <<":", " ">> \o json_dumps(ms[n].v)
         \o DumpMembers(ms, n + 1)

json_dumps(x) ==
    CASE x.t = "str" -> Quoted(x.v)
      [] x.t = "num" -> NatText(x.v)
      [] x.t = "arr" -> <<"[">> \o DumpItems(x.v, 1) \o <<"]">>
      [] x.t = "obj" -> <<"{">> \o DumpMembers(x.v, 1) \o <<"}">>

\* Python's == on decoded values: dicts compare as mappings, lists in order
RECURSIVE DeepEq(_, _)
DeepEq(x, y) ==
    /\ x.t = y.t
    /\ CASE x.t = "str" -> x.v = y.v
         [] x.t = "num" -> x.v = y.v
         [] x.t = "arr" -> /\ Len(x.v) = Len(y.v)
                           /\ \A n \in 1..Len(x.v) : DeepEq(x.v[n], y.v[n])
         [] x.t = "obj" -> /\ Len(x.v) = Len(y.v)
                           /\ \A n \in 1..Len(x.v) :
                                \E m \in 1..Len(y.v) :
                                    /\ y.v[m].k = x.v[n].k
                                    /\ DeepEq(x.v[n].v, y.v[m].v)

\* ---------------------------------------------------------- _coerce_json

\* ValueError("No JSON object found in agent output."), raised before the
\* repair and parse steps; steps lists the steps of _coerce_json that ran
ExtractionError == [kind |-> "ValueError", steps |-> <<"strip", "extract">>]

\* SearchBraces with the order of the two braces not checked
SearchBraces_AnyOrder(s) ==
    LET f == Find(s, "{")
        l == RFind(s, "}")
    IN  IF f # 0 /\ l # 0 THEN SubSeq(s, Min2(f, l), Max2(f, l)) ELSE <<>>

\* re.search(r"\{.*\}", s, flags=re.DOTALL): from the first "{" to the last "}"
SearchBraces(s) ==
    LET f == Find(s, "{")
        l == RFind(s, "}")
    IN  IF f # 0 /\ l > f THEN SubSeq(s, f, l) ELSE <<>>

\* the whole stripped text taken as the candidate
Candidate_WholeText(s) == s

\* the candidate chosen from the stripped text (<<>>: no match)
Candidate(s) ==
    IF Len(s) > 0 /\ s[1] = "{" /\ s[Len(s)] = "}" THEN s ELSE SearchBraces(s)

\* a window of SnippetRadius characters in all, centered on pos
Snippet_Centered(candidate, pos) ==
    Slice(candidate, Max2(0, pos - SnippetRadius \div 2) + 1,
          Min2(Len(candidate), pos + SnippetRadius \div 2))

\* candidate[max(0, e.pos-80):e.pos+80]
Snippet(candidate, pos) ==
    Slice(candidate, Max2(0, pos - SnippetRadius) + 1,
          Min2(Len(candidate), pos + SnippetRadius))

\* the repair and parse steps on a candidate; on a failure snippet is the
\* window that is printed and e the JSONDecodeError that is raised again
\* unchanged (its message, line and column follow from doc and pos)
ParseCandidate(candidate) ==
    LET cleaned == clean_json_str(candidate)
        r       == json_loads(cleaned)
        steps   == <<"strip", "extract", "repair", "parse">>
    IN  IF r.ok THEN [kind |-> "ok", val |-> r.val, steps |-> steps]
        ELSE [kind |-> "JSONDecodeError", pos |-> r.pos,
              snippet |-> Snippet(cleaned, r.pos),
              e |-> [doc |-> cleaned, pos |-> r.pos], steps |-> steps]

coerce_json(s0) ==
    LET s == Strip(s0)
        candidate == Candidate(s)
    IN  IF candidate = <<>> THEN ExtractionError
        ELSE ParseCandidate(candidate)

\* what each attribute of a response object holds
AttrText(a) ==
    CASE a = "output"  -> <<" ", "{", "\"", "a", "\"", ":", " ", "1", "}">>
      [] a = "content" -> <<"{", "\"", "a", "\"", ":", " ", "2", ",", "}", " ", "a">>
      [] a = "text"    -> <<"a", " ", "}", "{">>

\* the non-string branch of _coerce_json: the first of the attributes
\* output, content, text the response object has, else str(s)
ResponseText(x) ==
    IF x.src # "object" THEN x.text
    ELSE IF "output" \in x.attrs THEN AttrText("output")
    ELSE IF "content" \in x.attrs THEN AttrText("content")
    ELSE IF "text" \in x.attrs THEN AttrText("text")
    ELSE x.text

coerce_response(x) == coerce_json(ResponseText(x))

\* ------------------------------------------------- inputs of the coercer

\* bounds of the inputs
MaxFreeLen == 4

MaxMembers == 2

\* the longest run of blanks inside a long input
MaxPad == 90

FreeAlphabet == {"{", "}", "[", "]", ",", ":", "\"", "a", "1", " "}

\* every text of at most MaxFreeLen characters
FreeTexts == UNION {[1..n -> FreeAlphabet] : n \in 0..MaxFreeLen}

Leaves ==
    { Num(1),
      Str(<<"a">>),
      Str(<<"{", "a", "}">>),
      Str(<<"a", ",", "}">>),
      Str(<<",", ",", " ", "]">>) }

Values ==
    Leaves \cup {Arr(<<>>), Obj(<<>>)}
           \cup {Arr(<<l>>) : l \in Leaves}
           \cup {Obj(<<[k |-> <<"a">>, v |-> l]>>) : l \in Leaves}

Keys == <<<<"a">>, <<"b">>, <<"c">>, <<"d">>>>

\* the JSON objects J of at most MaxMembers members
Objects ==
    UNION {{Obj([n \in 1..m |-> [k |-> Keys[n], v |-> f[n]]]) : f \in [1..m -> Values]} :
              m \in 0..MaxMembers}

\* J as text, with a comma before each closing bracket of a non-empty
\* object or array when tc
RECURSIVE Render(_, _)
RECURSIVE RenderItems(_, _, _)
RECURSIVE RenderMembers(_, _, _)

RenderItems(xs, n, tc) ==
    IF n > Len(xs) THEN <<>>
    ELSE (IF n > 1 THEN <<",", " ">> ELSE <<>>)
         \o Render(xs[n], tc) \o RenderItems(xs, n + 1, tc)

RenderMembers(ms, n, tc) ==
    IF n > Len(ms) THEN <<>>
    ELSE (IF n > 1 THEN <<",", " ">> ELSE <<>>)
         \o Quoted(ms[n].k) \o <<":", " ">> \o Render(ms[n].v, tc)
         \o RenderMembers(ms, n + 1, tc)

Render(x, tc) ==
    LET comma == IF tc /\ x.t \in {"arr", "obj"} /\ Len(x.v) > 0 THEN <<",">> ELSE <<>>
    IN  CASE x.t = "str" -> Quoted(x.v)
          [] x.t = "num" -> NatText(x.v)
          [] x.t = "arr" -> <<"[">> \o RenderItems(x.v, 1, tc) \o comma \o <<"]">>
          [] x.t = "obj" -> <<"{">> \o RenderMembers(x.v, 1, tc) \o comma \o <<"}">>

\* commentary around the object
Prefixes == { <<>>, <<"a", ":", " ">>, <<"\n", "{", "a", "}", " ">> }

Suffixes == { <<>>, <<" ", "a">>, <<" ", "{", "a", "}">>, <<"]", "\n">> }

EmbeddedInputs ==
    {[src |-> "embedded", text |-> pre \o Render(J, tc) \o suf, J |-> J,
      pre |-> pre, suf |-> suf, attrs |-> {}] :
        J \in Objects, pre \in Prefixes, suf \in Suffixes, tc \in BOOLEAN}

FreeInputs ==
    {[src |-> "free", text |-> s, J |-> Obj(<<>>), pre |-> <<>>, suf |-> <<>>,
      attrs |-> {}] : s \in FreeTexts}

\* a response object: the attributes it has, and its str() form
ObjectInputs ==
    {[src |-> "object", text |-> s, J |-> Obj(<<>>), pre |-> <<>>, suf |-> <<>>,
      attrs |-> A] :
        s \in {<<"{", "}">>, <<"a">>}, A \in SUBSET {"output", "content", "text"}}

Blanks(n) == [i \in 1..n |-> " "]

\* candidates longer than the diagnostic window: an object whose first
\* member name is no string, with blanks before and after it
LongInputs ==
    {[src |-> "long",
      text |-> <<"{">> \o Blanks(n) \o <<"a">> \o Blanks(m) \o <<"}">>,
      J |-> Obj(<<>>), pre |-> <<>>, suf |-> <<>>, attrs |-> {}] :
        n \in {0, MaxPad \div 2, MaxPad}, m \in {0, MaxPad \div 2, MaxPad}}

CoerceInputs == EmbeddedInputs \cup FreeInputs \cup ObjectInputs \cup LongInputs

\* ------------------------------------------- specification of the coercer

CoerceInit ==
    /\ input \in CoerceInputs
    /\ result = None
    /\ again = None
    /\ goals = None
    /\ stage = "in"
    /\ locals = None
    /\ effects = None
    /\ response = None

\* _coerce_json(response)
Coerce ==
    /\ stage = "in"
    /\ result' = coerce_response(input)
    /\ stage' = "coerced"
    /\ UNCHANGED <<input, again, goals, rtvars>>

\* _coerce_json(json.dumps(O)) on the object O of a successful call
Recoerce ==
    /\ stage = "coerced"
    /\ result.kind = "ok"
    /\ again' = coerce_json(json_dumps(result.val))
    /\ stage' = "recoerced"
    /\ UNCHANGED <<input, result, goals, rtvars>>

CoerceNext == Coerce \/ Recoerce

SpecCoerce == CoerceInit /\ [][CoerceNext]_vars

\* ------------------------------------------------- claims on the coercer

\* some "{" of s is followed later by a "}"
HasBracePair(s) ==
    \E i \in 1..Len(s) : \E j \in (i + 1)..Len(s) : s[i] = "{" /\ s[j] = "}"

\* C1: for every JSON object J and every surrounding text, with or without
\* trailing commas before the closing brackets, _coerce_json applied to the
\* combined text returns an object deep-equal to J.
C1_EmbeddedObjectRecovered ==
    (stage # "in" /\ input.src = "embedded")
        => (result.kind = "ok" /\ DeepEq(result.val, input.J))

\* C2: whenever _coerce_json succeeds with object O, _coerce_json applied to
\* json.dumps(O) succeeds and returns an object equal to O.
C2_CoerceIdempotent ==
    stage = "recoerced" => (again.kind = "ok" /\ DeepEq(again.val, result.val))

\* C3: an input whose trimmed text holds no "{" followed later by a "}" makes
\* _coerce_json raise the extraction error, and only the strip and extract
\* steps have run: the repair and parse steps are never reached.
C3_NoBracePairIsExtractionError ==
    (stage # "in" /\ ~HasBracePair(Strip(ResponseText(input))))
        => (result.kind = "ValueError" /\ result.steps = <<"strip", "extract">>)

\* C3 witness: a text holding both braces, the closing one first, was refused
C3_Witness ==
    /\ stage = "coerced"
    /\ input.src = "free"
    /\ Find(input.text, "{") # 0
    /\ Find(input.text, "}") # 0
    /\ ~HasBracePair(Strip(input.text))
    /\ result.kind = "ValueError"

\* ------------------------------------------------ goal normalizer (Step 3)

Null == [t |-> "null", v |-> 0]                 \* None

T_smart_goals == <<"s", "m", "a", "r", "t", "_", "g", "o", "a", "l", "s">>

T_goals == <<"g", "o", "a", "l", "s">>

T_description == <<"d", "e", "s", "c", "r", "i", "p", "t", "i", "o", "n">>

T_goal == <<"g", "o", "a", "l">>

T_goal_number == <<"g", "o", "a", "l", "_", "n", "u", "m", "b", "e", "r">>

HasKey(d, key) == \E n \in 1..Len(d.v) : d.v[n].k = key

\* dict.get(key): the member's value, None when the key is absent
Get(d, key) ==
    IF HasKey(d, key)
    THEN d.v[CHOOSE n \in 1..Len(d.v) : d.v[n].k = key].v
    ELSE Null

\* bool(x)
Truthy(x) ==
    CASE x.t = "null" -> FALSE
      [] x.t = "num"  -> x.v # 0
      [] OTHER        -> Len(x.v) > 0

\* a or b
Or(a, b) == IF Truthy(a) THEN a ELSE b

\* repr(x): strings in single quotes (the model's strings hold no quote)
RECURSIVE PyRepr(_)
RECURSIVE ReprItems(_, _)
RECURSIVE ReprMembers(_, _)

ReprItems(xs, n) ==
    IF n > Len(xs) THEN <<>>
    ELSE (IF n > 1 THEN <<",", " ">> ELSE <<>>)
         \o PyRepr(xs[n]) \o ReprItems(xs, n + 1)

ReprMembers(ms, n) ==
    IF n > Len(ms) THEN <<>>
    ELSE (IF n > 1 THEN <<",", " ">> ELSE <<>>)
         \o <<"'">> \o ms[n].k \o <<"'", ":", " ">> \o PyRepr(ms[n].v)
         \o ReprMembers(ms, n + 1)

PyRepr(x) ==
    CASE x.t = "str"  -> <<"'">> \o x.v \o <<"'">>
      [] x.t = "num"  -> NatText(x.v)
      [] x.t = "null" -> <<"N", "o", "n", "e">>
      [] x.t = "arr"  -> <<"[">> \o ReprItems(x.v, 1) \o <<"]">>
      [] x.t = "obj"  -> <<"{">> \o ReprMembers(x.v, 1) \o <<"}">>

\* str(x)
PyStr(x) == IF x.t = "str" THEN x.v ELSE PyRepr(x)

\* goals_data = parsed.get("smart_goals") or parsed.get("goals") or []
goals_data(parsed) ==
    Or(Get(parsed, T_smart_goals), Or(Get(parsed, T_goals), Arr(<<>>)))

\* desc of one goal: a str, or the non-string value the or-chain picked
Desc(goal) ==
    IF goal.t = "obj"
    THEN Or(Get(goal, T_description), Or(Get(goal, T_goal), Str(PyStr(goal))))
    ELSE Str(PyStr(goal))

\* what enumerate(goals_data) yields: the items of a list, the keys of a
\* dict, the characters of a str
Iterate(g) ==
    CASE g.t = "arr" -> g.v
      [] g.t = "obj" -> [n \in 1..Len(g.v) |-> Str(g.v[n].k)]
      [] g.t = "str" -> [n \in 1..Len(g.v) |-> Str(<<g.v[n]>>)]

\* GoalEntry keeping the goal_number the element came with
GoalEntry_KeepsEmbeddedNumber(idx, goal) ==
    [goal_number |-> IF goal.t = "obj" /\ HasKey(goal, T_goal_number)
                     THEN Get(goal, T_goal_number).v ELSE idx,
     description |-> Strip(Desc(goal).v)]

\* the entry appended for the goal at 1-based position idx
GoalEntry(idx, goal) ==
    [goal_number |-> idx, description |-> Strip(Desc(goal).v)]

\* the loop of Step 3 over goals_data
normalize(parsed) ==
    LET g == goals_data(parsed)
    IN  IF g.t = "num" THEN [kind |-> "TypeError"]       \* int is not iterable
        ELSE LET items == Iterate(g)
             IN  IF \E n \in 1..Len(items) : Desc(items[n]).t # "str"
                 THEN [kind |-> "AttributeError"]        \* desc.strip() of a non-str
                 ELSE [kind |-> "ok",
                       list |-> [n \in 1..Len(items) |-> GoalEntry(n, items[n])]]

\* ---------------------------------------------- inputs of the normalizer

MaxGoals == 2

Absent == [t |-> "absent", v |-> 0]

\* a dict with the members that are not Absent, in this order
Dict(pairs) ==
    LET keep == SelectSeq(pairs, LAMBDA p : p.v.t # "absent")
    IN  Obj(keep)

\* goal elements: dicts with or without goal_number, description and goal
\* (description empty, padded, or a number), and plain strings
GoalDicts ==
    {Dict(<<[k |-> T_goal_number, v |-> num],
            [k |-> T_description, v |-> desc],
            [k |-> T_goal, v |-> gl]>>) :
        num  \in {Absent, Num(1), Num(3)},
        desc \in {Absent, Str(<<>>), Str(<<" ", "a", " ">>), Num(5)},
        gl   \in {Absent, Str(<<"b">>)}}

GoalStrings == {Str(<<>>), Str(<<" ", "c">>)}

GoalElements == GoalDicts \cup GoalStrings

GoalSeqs == UNION {[1..n -> GoalElements] : n \in 0..MaxGoals}

\* the parsed objects: the sequence under smart_goals, under goals, or under
\* smart_goals beside another goals list; and goals_data that is no list
ParsedWithGoals ==
    {Obj(<<[k |-> T_smart_goals, v |-> Arr(s)]>>) : s \in GoalSeqs}
    \cup {Obj(<<[k |-> T_goals, v |-> Arr(s)]>>) : s \in GoalSeqs}
    \cup {Obj(<<[k |-> T_smart_goals, v |-> Arr(s)],
                [k |-> T_goals, v |-> Arr(<<Str(<<"z">>)>>)]>>) : s \in GoalSeqs}

ParsedOdd ==
    { Obj(<<>>),
      Obj(<<[k |-> T_smart_goals, v |-> Num(5)]>>),
      Obj(<<[k |-> T_smart_goals, v |-> Str(<<"a", " ">>)]>>),
      Obj(<<[k |-> T_goals, v |-> Obj(<<[k |-> <<"a">>, v |-> Num(1)]>>)]>>) }

NormInputs ==
    {[src |-> "embedded", text |-> pre \o json_dumps(J) \o suf, J |-> J,
      pre |-> pre, suf |-> suf, attrs |-> {}] :
        J \in ParsedWithGoals \cup ParsedOdd,
        pre \in {<<>>}, suf \in {<<" ", "a">>}}

\* ---------------------------------------- specification of the normalizer

NormInit ==
    /\ input \in NormInputs
    /\ result = None
    /\ again = None
    /\ goals = None
    /\ stage = "in"
    /\ locals = None
    /\ effects = None
    /\ response = None

\* Step 3 of invoke, on the object Step 2 parsed
Normalize ==
    /\ stage = "coerced"
    /\ result.kind = "ok"
    /\ goals' = normalize(result.val)
    /\ stage' = "normalized"
    /\ UNCHANGED <<input, result, again, rtvars>>

NormNext == Coerce \/ Normalize

SpecNormalize == NormInit /\ [][NormNext]_vars

\* ---------------------------------------------- claims on the normalizer

\* a list whose elements are strings, or dicts whose description and goal
\* members, where present, are strings
IsGoalSequence(g) ==
    /\ g.t = "arr"
    /\ \A n \in 1..Len(g.v) :
          \/ g.v[n].t = "str"
          \/ /\ g.v[n].t = "obj"
             /\ Get(g.v[n], T_description).t \in {"null", "str"}
             /\ Get(g.v[n], T_goal).t \in {"null", "str"}

EmptyDescription(goal) ==
    \/ goal = Str(<<>>)
    \/ goal.t = "obj" /\ Get(goal, T_description) = Str(<<>>)

\* C5: an element whose description is empty still gets an entry, with
\* description "" and the 1-based goal_number of its position.
C5_EmptyDescriptionKept ==
    (stage = "normalized" /\ IsGoalSequence(goals_data(result.val)))
        => LET g == goals_data(result.val).v
           IN  \A i \in 1..Len(g) :
                   EmptyDescription(g[i])
                       => /\ goals.kind = "ok"
                          /\ Len(goals.list) >= i
                          /\ goals.list[i].goal_number = i
                          /\ goals.list[i].description = <<>>

\* the description the claim names: by key presence, not by truth value
DescriptionByKey(goal) ==
    IF goal.t # "obj" THEN PyStr(goal)
    ELSE IF HasKey(goal, T_description) THEN Get(goal, T_description).v
    ELSE IF HasKey(goal, T_goal) THEN Get(goal, T_goal).v
    ELSE PyStr(goal)

\* C6: the normalized description is the value of the description key if the
\* dict has that key, otherwise of its goal key, otherwise the stringified
\* dict, and a plain string itself; trimmed in every case.
C6_DescriptionByKeyPresence ==
    (stage = "normalized" /\ IsGoalSequence(goals_data(result.val)))
        => LET g == goals_data(result.val).v
           IN  /\ goals.kind = "ok"
               /\ Len(goals.list) = Len(g)
               /\ \A i \in 1..Len(g) :
                     goals.list[i].description = Strip(DescriptionByKey(g[i]))

\* ------------------------------------------------- evaluation plan builder
\* A run is [id, hasTs, ts, goals]: id is its place in the collection handed
\* in, ts its timestamp text when it has the field, goals its smart_goals.

\* the default of build_eval_plan_v2's limit
DefaultLimit == 50

NoLimit == -1                                   \* limit=None

\* ord(c) of the characters of a "%Y-%m-%d %H:%M:%S" timestamp
CharCode(c) ==
    IF c \in Digits THEN 48 + DigitVal(c)
    ELSE CASE c = " " -> 32 [] c = "-" -> 45 [] c = ":" -> 58

\* a < b on str: lexical, a proper prefix first
RECURSIVE StrLess(_, _)
StrLess(a, b) ==
    IF Len(b) = 0 THEN FALSE
    ELSE IF Len(a) = 0 THEN TRUE
    ELSE IF Head(a) # Head(b) THEN CharCode(Head(a)) < CharCode(Head(b))
    ELSE StrLess(Tail(a), Tail(b))

\* a key that puts the runs without a timestamp after every other run
SortKey_MissingLast(r) == IF r.hasTs THEN r.ts ELSE <<"9">>

\* r.get("timestamp", "")
SortKey(r) == IF r.hasTs THEN r.ts ELSE <<>>

\* a run put after the runs whose key is not greater (list.sort is stable)
RECURSIVE InsertRun(_, _)
InsertRun(sorted, r) ==
    IF Len(sorted) = 0 THEN <<r>>
    ELSE IF StrLess(SortKey(r), SortKey(sorted[Len(sorted)]))
         THEN Append(InsertRun(SubSeq(sorted, 1, Len(sorted) - 1), r), sorted[Len(sorted)])
         ELSE Append(sorted, r)

\* runs.sort(key=lambda r: r.get("timestamp", ""))
RECURSIVE SortRuns(_)
SortRuns(runs) ==
    IF Len(runs) = 0 THEN <<>>
    ELSE InsertRun(SortRuns(SubSeq(runs, 1, Len(runs) - 1)), runs[Len(runs)])

\* xs[start:] with Python's rule for a negative start
SliceFrom(xs, start) ==
    LET s0 == IF start < 0 THEN Max2(0, start + Len(xs)) ELSE Min2(start, Len(xs))
    IN  Slice(xs, s0 + 1, Len(xs))

\* if limit: runs = runs[-limit:]
TailRuns(runs, limit) ==
    IF limit # NoLimit /\ limit # 0 THEN SliceFrom(runs, 0 - limit) ELSE runs

load_analyzer_runs_v2(analyzer_json_src, limit) ==
    [runs |-> TailRuns(SortRuns(analyzer_json_src), limit)]

Metrics ==
    <<"specific", "measurable", "achievable", "relevant", "time_bound", "clarity">>

Rubric ==
    [specific   |-> "Clearly states the behavior/target (who/what/when/where).",
     measurable |-> "Includes a quantifiable criterion (count, frequency, value).",
     achievable |-> "Feasible for the patient (resources/constraints).",
     relevant   |-> "Aligned to diabetes/health needs in the notes.",
     time_bound |-> "Contains a concrete timeframe or deadline.",
     clarity    |-> "Readable, unambiguous, free of contradictions."]

\* one case per goal of each run
RECURSIVE FlattenCases(_, _)
FlattenCases(runs, n) ==
    IF n > Len(runs) THEN <<>>
    ELSE [g \in 1..Len(runs[n].goals) |->
             [timestamp |-> SortKey(runs[n]), goal_number |-> runs[n].goals[g]]]
         \o FlattenCases(runs, n + 1)

\* build_eval_plan_v2 as the commented-out version has it: per-goal cases
\* when some run has smart_goals, the "none" plan otherwise
build_eval_plan_flattening(analyzer_json_src, limit) ==
    LET runs == load_analyzer_runs_v2(analyzer_json_src, limit).runs
    IN  IF \E n \in 1..Len(runs) : Len(runs[n].goals) > 0
        THEN [evaluation_type |-> "smart_goals_rubric", metrics |-> Metrics,
              rubric |-> Rubric, cases |-> FlattenCases(runs, 1)]
        ELSE [evaluation_type |-> "none", metrics |-> <<>>, rubric |-> <<>>,
              cases |-> <<>>]

build_eval_plan_v2(analyzer_json_src, limit) ==
    LET runs  == load_analyzer_runs_v2(analyzer_json_src, limit).runs
        cases == runs
    IN  [evaluation_type |-> "smart_goals_rubric", metrics |-> Metrics,
         rubric |-> Rubric, cases |-> cases]

\* ------------------------------------------- inputs of the plan builder

MaxRuns == 3

Timestamps == {<<"1">>, <<"1", "0">>, <<"2">>}

RunShapes ==
    {[hasTs |-> TRUE, ts |-> ts, goals |-> g] :
        ts \in Timestamps, g \in {<<>>, <<1, 2>>}}
    \cup {[hasTs |-> FALSE, ts |-> <<>>, goals |-> g] : g \in {<<>>, <<1, 2>>}}

RunCollections ==
    UNION {{[n \in 1..m |-> [id |-> n, hasTs |-> f[n].hasTs, ts |-> f[n].ts,
                             goals |-> f[n].goals]] : f \in [1..m -> RunShapes]} :
              m \in 0..MaxRuns}

\* the limit handed in: none, or 0 .. MaxRuns + 1
Limits == {NoLimit} \cup 0..(MaxRuns + 1)

PlanInit ==
    /\ input \in {[runs |-> rs, limit |-> l] : rs \in RunCollections, l \in Limits}
    /\ result = None
    /\ again = None
    /\ goals = None
    /\ stage = "in"
    /\ locals = None
    /\ effects = None
    /\ response = None

\* load_analyzer_runs_v2(runs, limit), limit=None when none is handed in
LoadRuns ==
    /\ stage = "in"
    /\ result' = load_analyzer_runs_v2(input.runs, input.limit)
    /\ stage' = "loaded"
    /\ UNCHANGED <<input, again, goals, rtvars>>

\* build_eval_plan_v2(runs, limit), limit=50 when none is handed in
BuildPlan ==
    /\ stage = "in"
    /\ result' = build_eval_plan_v2(input.runs,
                     IF input.limit = NoLimit THEN DefaultLimit ELSE input.limit)
    /\ stage' = "built"
    /\ UNCHANGED <<input, again, goals, rtvars>>

PlanNext == LoadRuns \/ BuildPlan

SpecPlan == PlanInit /\ [][PlanNext]_vars

\* -------------------------------------------- claims on the plan builder

\* the runs an operation of the plan builder returned
ReturnedRuns == IF stage = "loaded" THEN result.runs ELSE result.cases

\* ascending by timestamp, lexically
Ascending(runs) ==
    \A i \in 1..Len(runs) : \A j \in (i + 1)..Len(runs) :
        ~StrLess(SortKey(runs[j]), SortKey(runs[i]))

\* out holds runs of the collection, each once, and none it leaves out has a
\* greater timestamp than one it holds
KeepsGreatest(out, all) ==
    /\ \A i \in 1..Len(out) : \E n \in 1..Len(all) : out[i] = all[n]
    /\ \A i \in 1..Len(out) : \A j \in (i + 1)..Len(out) : out[i].id # out[j].id
    /\ \A n \in 1..Len(all) :
          (\A i \in 1..Len(out) : out[i] # all[n])
              => \A i \in 1..Len(out) : ~StrLess(SortKey(out[i]), SortKey(all[n]))

\* C7: for n runs and a non-negative limit, load_analyzer_runs_v2 and
\* build_eval_plan_v2 return the runs in ascending timestamp order and keep
\* exactly the min(limit, n) runs with the greatest timestamps; without a
\* limit all n runs are kept.
C7_SortedTailOfLimit ==
    stage \in {"loaded", "built"}
        => LET n == Len(input.runs)
           IN  /\ Ascending(ReturnedRuns)
               /\ KeepsGreatest(ReturnedRuns, input.runs)
               /\ Len(ReturnedRuns) =
                      IF input.limit = NoLimit THEN n ELSE Min2(input.limit, n)

LowerChar(c) ==
    CASE c = "S" -> "s" [] c = "H" -> "h" [] c = "T" -> "t" [] c = "P" -> "p"
      [] c = "D" -> "d" [] c = "F" -> "f" [] OTHER -> c

Lower(s) == [i \in 1..Len(s) |-> LowerChar(s[i])]

StartsWith(s, p) == Len(s) >= Len(p) /\ SubSeq(s, 1, Len(p)) = p

EndsWith(s, p) == Len(s) >= Len(p) /\ SubSeq(s, Len(s) - Len(p) + 1, Len(s)) = p

T_s3 == <<"s", "3", ":", "/", "/">>


\* ------------------------------------------- analyzer entrypoint (invoke)
\* A prompt is a text in which the opening "[UPLOADED_FILE:" of a file marker
\* is one symbol.

UPLOADED_FILE == "[UPLOADED_FILE:"

T_prompt == <<"p", "r", "o", "m", "p", "t">>

T_model_id == <<"m", "o", "d", "e", "l", "_", "i", "d">>

\* "mistral.mistral-7b-instruct-v0:2"
Mistral7b ==
    <<"m", "i", "s", "t", "r", "a", "l", ".", "m", "i", "s", "t", "r", "a",
      "l", "-", "7", "b", "-", "i", "n", "s", "t", "r", "u", "c", "t", "-",
      "v", "0", ":", "2">>

\* "meta.llama3-70b-instruct-v1:0"
Llama70b ==
    <<"m", "e", "t", "a", ".", "l", "l", "a", "m", "a", "3", "-", "7", "0",
      "b", "-", "i", "n", "s", "t", "r", "u", "c", "t", "-", "v", "1", ":",
      "0">>

\* the default model identifier of the module
MODEL_ID == Mistral7b

\* the identifiers model_supports_system_prompt and model_supports_tools list
NoSystemPromptModels == {Mistral7b}

\* the list of model_supports_tools without the model that has no system
\* prompt either
NoToolsModels_LlamaOnly == {Llama70b}

NoToolsModels == {Mistral7b, Llama70b}

\* model_id.lower() on the letters of the model's identifiers
LowerId(m) == [i \in 1..Len(m) |-> IF m[i] = "M" THEN "m" ELSE m[i]]

\* model_supports_tools matching the listed identifiers without regard to
\* case
model_supports_tools_AnyCase(model_id) ==
    ~(model_id.t = "str" /\ LowerId(model_id.v) \in NoToolsModels)

\* model_id not in models
model_supports_system_prompt(model_id) ==
    ~(model_id.t = "str" /\ model_id.v \in NoSystemPromptModels)

model_supports_tools(model_id) ==
    ~(model_id.t = "str" /\ model_id.v \in NoToolsModels)

\* payload.get(key, default)
GetOr(d, key, default) == IF HasKey(d, key) THEN Get(d, key) ELSE default

\* the first "]" at or after position i, 0 when there is none
NextClose(s, i) ==
    IF \E j \in i..Len(s) : s[j] = "]"
    THEN CHOOSE j \in i..Len(s) : s[j] = "]" /\ \A k \in i..(j - 1) : s[k] # "]"
    ELSE 0

\* \[UPLOADED_FILE:[^\]]+\] matches at i: the opening, one character or more
\* that is no "]", then "]"
MarkerAt(s, i) == s[i] = UPLOADED_FILE /\ NextClose(s, i + 1) > i + 1

HasMarker(s) == \E i \in 1..Len(s) : MarkerAt(s, i)

\* re.search(...).group(1).strip(): the path of the first marker
MarkerPath(s) ==
    LET i == CHOOSE n \in 1..Len(s) :
                 MarkerAt(s, n) /\ \A m \in 1..(n - 1) : ~MarkerAt(s, m)
    IN  Strip(SubSeq(s, i + 1, NextClose(s, i + 1) - 1))

\* re.sub(r'\[UPLOADED_FILE:[^\]]+\]', '', s) from position i on
RECURSIVE RemoveMarkers(_, _)
RemoveMarkers(s, i) ==
    IF i > Len(s) THEN <<>>
    ELSE IF MarkerAt(s, i) THEN RemoveMarkers(s, NextClose(s, i + 1) + 1)
    ELSE <<s[i]>> \o RemoveMarkers(s, i + 1)

\* lines 254-266: file_path, original_data_source and user_input of a
\* non-empty stripped prompt
ReadMarker(user_input) ==
    IF (\E i \in 1..Len(user_input) : user_input[i] = UPLOADED_FILE)
       /\ HasMarker(user_input)
    THEN [file_path   |-> Str(MarkerPath(user_input)),
          data_source |-> MarkerPath(user_input),
          user_input  |-> Strip(RemoveMarkers(user_input, 1))]
    ELSE [file_path   |-> Null,
          data_source |-> user_input,
          user_input  |-> user_input]

\* ------------------------------------------------ helpers for filenames

Letters ==
    {"a", "b", "c", "d", "e", "f", "g", "h", "i", "j", "k", "l", "m", "n", "o",
     "p", "q", "r", "s", "t", "u", "v", "w", "x", "y", "z",
     "A", "B", "C", "D", "E", "F", "G", "H", "I", "J", "K", "L", "M", "N", "O",
     "P", "Q", "R", "S", "T", "U", "V", "W", "X", "Y", "Z"}

\* os.path.basename: what follows the last "/"
basename(s) == SubSeq(s, RFind(s, "/") + 1, Len(s))

\* os.path.splitext(base)[0]: base up to its last ".", unless only dots
\* precede that "."
splitext_name(base) ==
    LET d == RFind(base, ".")
    IN  IF d > 0 /\ \E j \in 1..(d - 1) : base[j] # "."
        THEN SubSeq(base, 1, d - 1)
        ELSE base

T_unknown_source ==
    <<"u", "n", "k", "n", "o", "w", "n", "_", "s", "o", "u", "r", "c", "e">>

T_output_json ==
    <<"_", "o", "u", "t", "p", "u", "t", ".", "j", "s", "o", "n">>

\* _basename_no_ext (lines 163-176); unpacking s[5:].split("/", 1) raises
\* ValueError when nothing follows the bucket
basename_no_ext(path_or_uri) ==
    LET q == Find(path_or_uri, "?")
        s == IF q = 0 THEN path_or_uri ELSE SubSeq(path_or_uri, 1, q - 1)
        rest == SubSeq(s, 6, Len(s))
        isS3 == StartsWith(Lower(s), T_s3)
    IN  IF isS3 /\ Find(rest, "/") = 0
        THEN [kind |-> "ValueError"]
        ELSE LET key  == IF isS3 THEN SubSeq(rest, Find(rest, "/") + 1, Len(rest))
                         ELSE s
                 name == splitext_name(basename(key))
             IN  [kind |-> "ok",
                  name |-> IF name = <<>> THEN T_unknown_source ELSE name]

\* _safe_fragment (lines 178-184)
safe_fragment(s) ==
    [i \in 1..Len(s) |->
        IF s[i] \in Letters \cup Digits \cup {"-", "_"} THEN s[i] ELSE "_"]

\* out_path below OUTPUT_DIR_INDIVIDUAL: f"{base}_{safe_model}_output.json"
out_path(base, model) == base \o <<"_">> \o safe_fragment(model) \o T_output_json

\* ---------------------------------------------- responses and exceptions

StatusResponse(code, body) == [statusCode |-> code, body |-> body]

\* the 400 of the analyzer
NoPromptResponse == StatusResponse(400, [error |-> "No prompt provided."])

\* the catch-all: {"statusCode": 500, "body": {"error": str(e)}}
ErrorResponse(exc) == StatusResponse(500, [error |-> exc])

\* an exception that left the entrypoint
Raised(exc) == [kind |-> "raised", exc |-> exc]

\* the analyzer hands r back to its caller
Return(eff, r) == [eff EXCEPT !.returned = Append(@, r)]

\* os.remove(file_path) of the cleanup, guarded by file_path being truthy and
\* the file existing; removed tells whether os.remove went through
Cleanup(eff, file_path, removed) ==
    IF Truthy(file_path) /\ eff.tempFile = "present" /\ removed
    THEN [eff EXCEPT !.tempFile = "removed"]
    ELSE eff


\* ------------------------------------------------ inputs of the runtime

T_analyzer_payload ==
    <<"a", "n", "a", "l", "y", "z", "e", "r", "_", "p", "a", "y", "l", "o", "a", "d">>

\* payloads that are no mapping: None and a str
NonMappings == {Null, Str(<<"a">>)}

\* values of the prompt member: absent, null, empty, whitespace only, a
\* source, a number, prompts with a file marker (complete, without a
\* path, and with nothing beside the marker), a path with a directory, an
\* extension and a query, and a bucket without a key
Prompts ==
    { Absent, Null, Str(<<>>), Str(<<" ", "\n">>), Str(<<" ", "a", " ">>), Num(5),
      Str(<<UPLOADED_FILE, " ", "f", "]", " ", "a">>),
      Str(<<UPLOADED_FILE, "]", "a">>),
      Str(<<" ", UPLOADED_FILE, "f", "]">>),
      Str(<<"d", "/", "a", ".", "b", "?", "c">>),
      Str(<<"S", "3", ":", "/", "/", "b">>) }

\* values of the model_id member: absent (the default model, listed in both
\* lists), a model listed for tools only, the same in another case, and an
\* unlisted one
ModelIds ==
    {Absent, Str(Llama70b), Str(<<"M">> \o Tail(Llama70b)), Str(<<"m">>)}

AnalyzerPayloads ==
    NonMappings
    \cup {Dict(<<[k |-> T_prompt, v |-> p], [k |-> T_model_id, v |-> m]>>) :
             p \in Prompts, m \in ModelIds}

\* the analyzer_payload member: absent, null, an empty run, a run
EvaluatorPayloads ==
    NonMappings
    \cup {Dict(<<[k |-> T_analyzer_payload, v |-> a]>>) :
             a \in {Absent, Null, Obj(<<>>),
                    Obj(<<[k |-> T_smart_goals, v |-> Arr(<<>>)]>>)}}

\* whether the uploaded file named by the prompt's marker exists
FileStates(payload) ==
    IF payload.t = "obj" /\ GetOr(payload, T_prompt, Str(<<>>)).t = "str"
       /\ HasMarker(GetOr(payload, T_prompt, Str(<<>>)).v)
    THEN {"present", "absent"}
    ELSE {"absent"}

\* agent: whether the module-level evaluator agent was created (v1 leaves
\* it None when the plan tool is missing)
Requests ==
    UNION {{[entry |-> "analyzer", payload |-> p, file |-> f, agent |-> TRUE] :
               f \in FileStates(p)} : p \in AnalyzerPayloads}
    \cup {[entry |-> "evaluator", payload |-> p, file |-> "absent", agent |-> TRUE] :
             p \in EvaluatorPayloads}
    \cup {[entry |-> "evaluator_v1", payload |-> p, file |-> "absent", agent |-> a] :
             p \in EvaluatorPayloads, a \in BOOLEAN}

\* what the model or the judge answers: an object with one goal amid
\* commentary, an empty object, no object, an object that does not parse,
\* goals that are no list, a description that is no string
ModelTexts ==
    { <<"a", " ">> \o json_dumps(Obj(<<[k |-> T_smart_goals,
            v |-> Arr(<<Obj(<<[k |-> T_description, v |-> Str(<<" ", "b">>)]>>)>>)]>>)),
      <<"{", "}">>,
      <<"a">>,
      <<"{", "\"", "a", "\"", " ", "1", "}">>,
      json_dumps(Obj(<<[k |-> T_goals, v |-> Num(5)]>>)),
      json_dumps(Obj(<<[k |-> T_goals,
            v |-> Arr(<<Obj(<<[k |-> T_description, v |-> Num(5)]>>)>>)]>>)) }

\* returned: the responses the analyzer has handed back, in order
NoEffects ==
    [modelCalls |-> 0, judgeCalls |-> 0, evaluatorCalls |-> 0,
     runFile |-> <<>>, runLog |-> <<>>, tempFile |-> "absent",
     returned |-> <<>>]

\* the locals of invoke before any is bound; e is the caught exception
NoLocals ==
    [user_input |-> <<>>, file_path |-> Null, data_source |-> <<>>,
     model_id |-> Null, supports_system_prompt |-> FALSE,
     supports_tools |-> FALSE, calls |-> <<>>, response |-> <<>>,
     output_obj |-> None, evaluator_result |-> None, e |-> ""]

Init ==
    /\ input \in Requests
    /\ result = None
    /\ again = None
    /\ goals = None
    /\ stage = "request"
    /\ locals = NoLocals
    /\ effects = [NoEffects EXCEPT !.tempFile = input.file]
    /\ response = None


\* --------------------------------------------- steps of the analyzer

\* the catch-all of invoke (lines 432-444): cleanup of the uploaded file,
\* then the 500 response
Fail500From(exc, eff, loc) ==
    \E removed \in BOOLEAN :
        /\ effects' = Return(Cleanup(eff, loc.file_path, removed),
                             ErrorResponse(exc))
        /\ locals' = [loc EXCEPT !.e = exc]
        /\ response' = ErrorResponse(exc)
        /\ stage' = "returned"

Fail500(exc, eff) == Fail500From(exc, eff, locals)

\* lines 247-269: the prompt, the file marker, the model identifier
ReadPrompt ==
    /\ stage = "request"
    /\ input.entry = "analyzer"
    /\ LET payload == input.payload
           prompt  == GetOr(payload, T_prompt, Str(<<>>))
       IN  IF payload.t # "obj" \/ prompt.t # "str"
           THEN \* .get of a non-mapping; .strip() of None or of a number
                Fail500("AttributeError", effects)
           ELSE IF Strip(prompt.v) = <<>>
           THEN /\ response' = NoPromptResponse
                /\ effects' = Return(effects, NoPromptResponse)
                /\ stage' = "returned"
                /\ UNCHANGED locals
           ELSE LET m == ReadMarker(Strip(prompt.v))
                IN  /\ locals' = [locals EXCEPT
                            !.user_input  = m.user_input,
                            !.file_path   = m.file_path,
                            !.data_source = m.data_source,
                            !.model_id    = GetOr(payload, T_model_id, Str(MODEL_ID))]
                    /\ stage' = "prompt_read"
                    /\ UNCHANGED <<effects, response>>
    /\ UNCHANGED <<input, result, again, goals>>

\* Message that never inlines the instructions
Message_NeverInlined(st, sp, hasFile, attempt) ==
    IF hasFile
    THEN IF st THEN <<"user_input">>
         ELSE <<"user_input">>
              \o (IF attempt = "with_content" THEN <<"file_content">>
                  ELSE <<"error_message">>)
    ELSE <<"data_source">>

\* the user message of a call, as the parts it is put together from; attempt
\* is "direct", or "with_content" / "with_error" in the branch that fetches
\* the file itself
Message(st, sp, hasFile, attempt) ==
    IF hasFile
    THEN IF st /\ sp THEN <<"user_input">>
         ELSE IF st THEN <<"instructions">>
         ELSE (IF sp THEN <<>> ELSE <<"instructions">>)
              \o <<"user_input">>
              \o (IF attempt = "with_content" THEN <<"file_content">>
                  ELSE <<"error_message">>)
    ELSE IF sp THEN <<"data_source">>
    ELSE <<"instructions", "data_source">>

\* dynamic_agent_kwargs (lines 286-308) and the message of one call
AgentCall(st, sp, hasFile, attempt) ==
    [tools         |-> st,
     system_prompt |-> IF ~sp THEN "none" ELSE IF hasFile THEN "file" ELSE "static",
     message       |-> Message(st, sp, hasFile, attempt)]

\* the agent raising instead of answering
Raises == <<"raises">>

\* Step 1 (lines 272-355): the capabilities of the requested model, the
\* agent, and the call.  Without tools and with an uploaded file the call is
\* made inside a try whose handler calls the agent again (lines 323-345).
CallModel ==
    /\ stage = "prompt_read"
    /\ LET st      == model_supports_tools(locals.model_id)
           sp      == model_supports_system_prompt(locals.model_id)
           hasFile == Truthy(locals.file_path)
           loc     == [locals EXCEPT !.supports_tools = st,
                                     !.supports_system_prompt = sp]
           Finish(calls, answer) ==
               LET l2 == [loc EXCEPT !.calls = calls]
                   e2 == [effects EXCEPT !.modelCalls = Len(calls)]
               IN  IF answer = Raises
                   THEN Fail500From("ModelError", e2, l2)
                   ELSE /\ locals' = [l2 EXCEPT !.response = answer]
                        /\ effects' = e2
                        /\ stage' = "model_returned"
                        /\ UNCHANGED response
       IN  IF hasFile => st
           THEN \E answer \in ModelTexts \cup {Raises} :
                    Finish(<<AgentCall(st, sp, hasFile, "direct")>>, answer)
           ELSE \E fetched \in BOOLEAN, first, second \in ModelTexts \cup {Raises} :
                    IF fetched /\ first # Raises
                    THEN Finish(<<AgentCall(st, sp, hasFile, "with_content")>>, first)
                    ELSE Finish((IF fetched
                                 THEN <<AgentCall(st, sp, hasFile, "with_content")>>
                                 ELSE <<>>)
                                \o <<AgentCall(st, sp, hasFile, "with_error")>>,
                                second)
    /\ UNCHANGED <<input, result, again, goals>>

\* ParseOutput falling back to an empty object when the response does not
\* coerce
ParseOutput_FallsBack ==
    /\ stage = "model_returned"
    /\ LET parsed == coerce_json(locals.response)
       IN  result' = IF parsed.kind = "ok" THEN parsed
                     ELSE [kind |-> "ok", val |-> Obj(<<>>), steps |-> parsed.steps]
    /\ stage' = "parsed"
    /\ UNCHANGED <<input, again, goals, locals, effects, response>>

\* Step 2 (line 360): parsed = _coerce_json(response)
ParseOutput ==
    /\ stage = "model_returned"
    /\ LET parsed == coerce_json(locals.response)
       IN  /\ result' = parsed
           /\ IF parsed.kind = "ok"
              THEN /\ stage' = "parsed"
                   /\ UNCHANGED <<locals, effects, response>>
              ELSE Fail500(parsed.kind, effects)
    /\ UNCHANGED <<input, again, goals>>

\* Steps 3 and 4 (lines 362-382): smart_goals and output_obj
NormalizeGoals ==
    /\ stage = "parsed"
    /\ LET g == normalize(result.val)
       IN  /\ goals' = g
           /\ IF g.kind = "ok"
              THEN \E ts \in Timestamps :
                     /\ locals' = [locals EXCEPT !.output_obj =
                            [model_id    |-> locals.model_id,
                             data_source |-> locals.data_source,
                             timestamp   |-> ts,
                             smart_goals |-> g.list]]
                     /\ stage' = "output_built"
                     /\ UNCHANGED <<effects, response>>
              ELSE Fail500(g.kind, effects)
    /\ UNCHANGED <<input, result, again>>

\* Step 5 (lines 385-393): the per-run file, named after user_input and the
\* module's MODEL_ID, is opened for writing and holds output_obj; making the
\* directory or opening the file fails with OSError, _basename_no_ext with
\* ValueError
SaveRunFile ==
    /\ stage = "output_built"
    /\ LET base == basename_no_ext(locals.user_input)
       IN  \/ Fail500("OSError", effects)
           \/ /\ base.kind # "ok"
              /\ Fail500(base.kind, effects)
           \/ /\ base.kind = "ok"
              /\ effects' = [effects EXCEPT !.runFile =
                     <<[path    |-> out_path(base.name, MODEL_ID),
                        content |-> locals.output_obj]>>]
              /\ stage' = "file_written"
              /\ UNCHANGED <<locals, response>>
    /\ UNCHANGED <<input, result, again, goals>>

\* AppendRunLog opening the log with mode "w"
AppendRunLog_Truncating ==
    /\ stage = "file_written"
    /\ \/ Fail500("OSError", effects)
       \/ /\ effects' = [effects EXCEPT !.runLog = <<locals.output_obj>>]
          /\ stage' = "logged"
          /\ UNCHANGED <<locals, response>>
    /\ UNCHANGED <<input, result, again, goals>>

\* Step 5 (line 395): _append_jsonl(output_jsonl, output_obj)
AppendRunLog ==
    /\ stage = "file_written"
    /\ \/ Fail500("OSError", effects)
       \/ /\ effects' = [effects EXCEPT !.runLog = Append(@, locals.output_obj)]
          /\ stage' = "logged"
          /\ UNCHANGED <<locals, response>>
    /\ UNCHANGED <<input, result, again, goals>>

\* how the chained evaluator call ends
EvaluatorOutcomes == {"scores", "exception", "unreadable", "no evaluator_output"}

\* CallEvaluator without the try/except around the evaluator call: a failure
\* goes to the catch-all of invoke
CallEvaluator_Propagating ==
    /\ stage = "logged"
    /\ \E outcome \in EvaluatorOutcomes :
         IF outcome = "scores"
         THEN /\ locals' = [locals EXCEPT !.evaluator_result = [scores |-> "scores"]]
              /\ effects' = [effects EXCEPT !.evaluatorCalls = @ + 1]
              /\ stage' = "evaluated"
              /\ UNCHANGED response
         ELSE Fail500(outcome, [effects EXCEPT !.evaluatorCalls = @ + 1])
    /\ UNCHANGED <<input, result, again, goals>>

\* Step 6 (lines 397-409): the evaluator runtime is called; any failure is
\* caught here and becomes evaluator_result = {"error": ...}
CallEvaluator ==
    /\ stage = "logged"
    /\ \E outcome \in EvaluatorOutcomes :
         locals' = [locals EXCEPT !.evaluator_result =
                        IF outcome = "scores" THEN [scores |-> "scores"]
                        ELSE [error |-> outcome]]
    /\ effects' = [effects EXCEPT !.evaluatorCalls = @ + 1]
    /\ stage' = "evaluated"
    /\ UNCHANGED <<input, result, again, goals, response>>

\* lines 412-430: cleanup of the uploaded file, then the 200 response
Respond ==
    /\ stage = "evaluated"
    /\ LET combined == StatusResponse(200,
                          [model_output     |-> locals.output_obj,
                           evaluator_result |-> locals.evaluator_result])
       IN  /\ \E removed \in BOOLEAN :
                effects' = Return(Cleanup(effects, locals.file_path, removed),
                                  combined)
           /\ response' = combined
    /\ stage' = "returned"
    /\ UNCHANGED <<input, result, again, goals, locals>>


\* ------------------------------------------------ evaluator entrypoints

\* what the judge agent hands back: one of the texts, or an object that is
\* no text
JudgeAnswers == ModelTexts \cup {<<"AgentResult">>}

\* invoke of evaluator_agent_runtime.py: everything inside the try
EvaluatorInvoke ==
    /\ stage = "request"
    /\ input.entry = "evaluator"
    /\ LET payload == input.payload
       IN  IF payload.t # "obj"
           THEN /\ locals' = [locals EXCEPT !.e = "AttributeError"]
                /\ response' = ErrorResponse("AttributeError")
                /\ UNCHANGED <<result, effects>>
           ELSE IF ~Truthy(Get(payload, T_analyzer_payload))
           THEN /\ response' = StatusResponse(400,
                                  [error |-> "No analyzer_payload provided."])
                /\ UNCHANGED <<result, effects, locals>>
           ELSE /\ effects' = [effects EXCEPT !.judgeCalls = @ + 1]
                /\ \/ /\ locals' = [locals EXCEPT !.e = "ModelError"]
                      /\ response' = ErrorResponse("ModelError")
                      /\ UNCHANGED result
                   \/ \E text \in ModelTexts, ts \in Timestamps :
                        LET parsed == coerce_json(text)
                        IN  /\ result' = parsed
                            /\ IF parsed.kind = "ok"
                               THEN /\ response' = StatusResponse(200,
                                        [run_id           |-> "uuid4",
                                         timestamp        |-> ts,
                                         evaluator_output |-> parsed.val,
                                         analyzer_input   |->
                                             Get(payload, T_analyzer_payload)])
                                    /\ locals' = [locals EXCEPT !.response = text]
                               ELSE /\ locals' = [locals EXCEPT !.response = text,
                                                                !.e = parsed.kind]
                                    /\ response' = ErrorResponse(parsed.kind)
    /\ stage' = "returned"
    /\ UNCHANGED <<input, again, goals>>

\* run_evaluator of evaluator_agent_runtime_v1.py (lines 95-110): the
\* response of invoke's try block, given the judge's outcome
run_evaluator(agent, raw, ts) ==
    IF ~agent THEN ErrorResponse("RuntimeError")
    ELSE IF raw = <<"raises">> THEN ErrorResponse("ModelError")
    ELSE IF raw = <<"AgentResult">> \/ ~json_loads(raw).ok
    THEN ErrorResponse("ValueError")
    ELSE StatusResponse(200, [run_id           |-> "uuid4",
                              timestamp        |-> ts,
                              evaluator_output |-> json_loads(raw).val])

\* invoke of evaluator_agent_runtime_v1.py (lines 117-127): payload.get is
\* called before the try
EvaluatorV1Invoke ==
    /\ stage = "request"
    /\ input.entry = "evaluator_v1"
    /\ LET payload == input.payload
       IN  IF payload.t # "obj"
           THEN /\ response' = Raised("AttributeError")
                /\ UNCHANGED <<effects, locals>>
           ELSE IF ~Truthy(Get(payload, T_analyzer_payload))
           THEN /\ response' = StatusResponse(400,
                                  [error |-> "Missing analyzer_payload"])
                /\ UNCHANGED <<effects, locals>>
           ELSE \E raw \in JudgeAnswers \cup {<<"raises">>}, ts \in Timestamps :
                  LET r == run_evaluator(input.agent, raw, ts)
                  IN  /\ response' = r
                      /\ effects' = [effects EXCEPT !.judgeCalls =
                                        IF input.agent THEN @ + 1 ELSE @]
                      /\ locals' = [locals EXCEPT
                            !.response = IF input.agent /\ raw # <<"raises">>
                                         THEN raw ELSE @,
                            !.e = IF r.statusCode = 500 THEN r.body.error ELSE @]
    /\ stage' = "returned"
    /\ UNCHANGED <<input, result, again, goals>>

\* ------------------------------------------ specification of the runtime

Next ==
    \/ ReadPrompt
    \/ CallModel
    \/ ParseOutput
    \/ NormalizeGoals
    \/ SaveRunFile
    \/ AppendRunLog
    \/ CallEvaluator
    \/ Respond
    \/ EvaluatorInvoke
    \/ EvaluatorV1Invoke

Spec == Init /\ [][Next]_vars

\* ---------------------------------------------- claims on the entrypoints

\* the prompt is missing or empty: absent key, null, empty, whitespace only
PromptMissingOrEmpty(payload) ==
    \/ ~HasKey(payload, T_prompt)
    \/ Get(payload, T_prompt).t = "null"
    \/ /\ Get(payload, T_prompt).t = "str"
       /\ Strip(Get(payload, T_prompt).v) = <<>>

IsStatus(r, code) == "statusCode" \in DOMAIN r /\ r.statusCode = code

HasErrorBody(r) == "body" \in DOMAIN r /\ DOMAIN r.body = {"error"}

\* C9: for every payload whose prompt is missing or empty (absent key, null,
\* empty string, whitespace only) the analyzer entrypoint returns statusCode
\* 400 with an {error} body, without invoking the model, without writing the
\* per-run file and without appending to the run log.
C9_MissingPromptIs400 ==
    (/\ stage = "returned"
     /\ input.entry = "analyzer"
     /\ input.payload.t = "obj"
     /\ PromptMissingOrEmpty(input.payload))
        => /\ IsStatus(response, 400)
           /\ HasErrorBody(response)
           /\ effects.modelCalls = 0
           /\ effects.runFile = <<>>
           /\ effects.runLog = <<>>

\* C10: the analyzer and evaluator entrypoints never raise: whatever the
\* payload and whichever step fails (model call, coercion, normalization,
\* file write), invoke returns a response whose statusCode is 200, 400 or
\* 500, and every exception becomes statusCode 500 with the body
\* {error: <string form of the exception>}.
C10_EntrypointsNeverRaise ==
    stage = "returned"
        => /\ \/ IsStatus(response, 200)
              \/ IsStatus(response, 400)
              \/ IsStatus(response, 500)
           /\ (locals.e # "" \/ result.kind \notin {"none", "ok"}
                             \/ goals.kind \notin {"none", "ok"})
                  => (response = ErrorResponse(locals.e) /\ locals.e # "")


\* the member names of a successful evaluator body
EvaluatorBodyKeys == {"run_id", "timestamp", "evaluator_output", "analyzer_input"}

\* C11: the evaluator entrypoint returns 400 exactly when analyzer_payload is
\* missing from the payload, and then the judge was not invoked; a success
\* is a 200 whose body holds run_id, timestamp, evaluator_output (the
\* coerced judge output) and analyzer_input equal to the analyzer_payload
\* received; a failure of the judge call or of the coercion gives 500.
C11_EvaluatorStatuses ==
    (/\ stage = "returned"
     /\ input.entry \in {"evaluator", "evaluator_v1"}
     /\ input.payload.t = "obj")
        => /\ IsStatus(response, 400) <=> ~HasKey(input.payload, T_analyzer_payload)
           /\ IsStatus(response, 400) => effects.judgeCalls = 0
           /\ IsStatus(response, 200)
                => /\ DOMAIN response.body = EvaluatorBodyKeys
                   /\ coerce_json(locals.response).kind = "ok"
                   /\ response.body.evaluator_output = coerce_json(locals.response).val
                   /\ response.body.analyzer_input
                          = Get(input.payload, T_analyzer_payload)
           /\ (locals.e # "" \/ (effects.judgeCalls > 0
                                 /\ coerce_json(locals.response).kind # "ok"))
                => IsStatus(response, 500)

\* C12: when the model's response cannot be coerced (no object found, or a
\* parse failure after the repair) the step that follows the response ends
\* the analyzer invocation with the 500: the model is not invoked again, no
\* AnalyzerRun is built, nothing is written to the per-run file or the run
\* log, and the evaluator is not called.
C12_UncoercibleResponseIs500 ==
    [][(/\ input.entry = "analyzer"
        /\ stage = "model_returned"
        /\ coerce_json(locals.response).kind # "ok")
          => /\ stage' = "returned"
             /\ IsStatus(response', 500)
             /\ HasErrorBody(response')
             /\ effects'.modelCalls = effects.modelCalls
             /\ locals'.calls = locals.calls
             /\ locals'.output_obj = None
             /\ effects'.runFile = <<>>
             /\ effects'.runLog = <<>>
             /\ effects'.evaluatorCalls = 0]_vars

\* C12 witness: a response that held an object which did not parse after the
\* repair was answered with the 500
C12_Witness ==
    /\ input.entry = "analyzer"
    /\ stage = "returned"
    /\ result.kind = "JSONDecodeError"
    /\ locals.response # <<>>
    /\ response = ErrorResponse("JSONDecodeError")

\* ------------------------------------------------------------ fetch_data

ROW_DELIM == "@"

\* text.split(d): the pieces between the occurrences of d
RECURSIVE Split(_, _)
Split(s, d) ==
    IF Find(s, d) = 0 THEN <<s>>
    ELSE <<SubSeq(s, 1, Find(s, d) - 1)>> \o Split(SubSeq(s, Find(s, d) + 1, Len(s)), d)

\* sep.join(parts)
RECURSIVE Join(_, _)
Join(parts, sep) ==
    IF Len(parts) = 0 THEN <<>>
    ELSE IF Len(parts) = 1 THEN parts[1]
    ELSE parts[1] \o <<sep>> \o Join(Tail(parts), sep)

\* _format_rows_as_lines with the chunks neither trimmed nor dropped
format_rows_plain(text) ==
    IF Find(text, ROW_DELIM) # 0 THEN Join(Split(text, ROW_DELIM), "\n") ELSE text

\* _format_rows_as_lines (lines 108-117)
format_rows_as_lines(text) ==
    LET t == Strip(text)
    IN  IF Find(t, ROW_DELIM) # 0
        THEN LET pieces == Split(t, ROW_DELIM)
                 chunks == SelectSeq([i \in 1..Len(pieces) |-> Strip(pieces[i])],
                                     LAMBDA c : c # <<>>)
             IN  Join(chunks, "\n")
        ELSE t

T_http == <<"h", "t", "t", "p", ":", "/", "/">>

T_https == <<"h", "t", "t", "p", "s", ":", "/", "/">>

\* FetchBranch comparing the prefixes without lower()
FetchBranch_CaseSensitive(ds) ==
    IF ~Truthy(ds) THEN "none"
    ELSE IF StartsWith(ds.v, T_s3) THEN "s3"
    ELSE IF StartsWith(ds.v, T_http) \/ StartsWith(ds.v, T_https) THEN "url"
    ELSE "local"

\* the branch of fetch_data a data_source value goes to
FetchBranch(ds) ==
    IF ~Truthy(ds) THEN "none"
    ELSE IF StartsWith(Lower(ds.v), T_s3) THEN "s3"
    ELSE IF StartsWith(Lower(ds.v), T_http) \/ StartsWith(Lower(ds.v), T_https)
    THEN "url"
    ELSE "local"

\* the error results of fetch_data
FetchError(message, source_type, ds) ==
    [kind |-> "returned", error |-> message, raw_text |-> <<>>,
     formatted_text |-> <<>>, source_type |-> source_type, data_source |-> ds]

FetchResult(raw, source_type, ds) ==
    [kind |-> "returned", error |-> "", raw_text |-> raw,
     formatted_text |-> format_rows_as_lines(raw), source_type |-> source_type,
     data_source |-> ds]

\* fetch_data (lines 281-355).  env.read tells whether the read and the text
\* extraction go through, env.content what they give, env.exists whether a
\* local path exists, env.log whether the fetch log can be written.
fetch_data(ds, env) ==
    IF ds.t \notin {"null", "str"} /\ Truthy(ds)
    THEN [kind |-> "raised", exc |-> "AttributeError"]   \* ds.lower() of a non-str
    ELSE LET branch == FetchBranch(ds)
         IN  IF branch = "none"
             THEN FetchError("No data_source provided.", "unknown", ds)
             ELSE IF branch = "s3"
             THEN IF ~env.read THEN FetchError("S3 error", "s3", ds)
                  ELSE IF ~env.log THEN [kind |-> "raised", exc |-> "OSError"]
                  ELSE FetchResult(env.content, "s3", ds)
             ELSE IF branch = "url"
             THEN IF ~env.read THEN FetchError("HTTP error", "url", ds)
                  ELSE IF ~env.log THEN [kind |-> "raised", exc |-> "OSError"]
                  ELSE FetchResult(env.content, "url", ds)
             ELSE IF env.exists
             THEN IF ~env.read THEN FetchError("File read error", "file", ds)
                  ELSE FetchResult(env.content, "file", ds)
             ELSE FetchError("Unsupported data_source", "unknown", ds)

\* whether fetch_data reaches _save_formatted_to_file
WritesFetchLog(ds, env) ==
    /\ ds.t \in {"null", "str"}
    /\ FetchBranch(ds) \in {"s3", "url"}
    /\ env.read


\* --------------------------------------------------- inputs of fetch_data

MaxRowLen == 3

RowAlphabet == {"a", ROW_DELIM, " ", "\n"}

\* the texts the sources hold
RowTexts == UNION {[1..n -> RowAlphabet] : n \in 0..MaxRowLen}

\* data_source values: none, empty, blank, a number, and sources with and
\* without the prefixes, in either case
DataSources ==
    { Null, Str(<<>>), Str(<<" ", " ">>), Num(5),
      Str(T_s3 \o <<"b", "/", "k">>),
      Str(<<"S", "3", ":", "/", "/", "b", "/", "k">>),
      Str(T_http \o <<"h">>),
      Str(<<"H", "T", "T", "P", "S", ":", "/", "/", "h">>),
      Str(T_https \o <<"h">>),
      Str(<<"f", ".", "t">>),
      Str(<<"s", "3", ":", "/", "b">>),
      Str(<<" ">> \o T_s3 \o <<"b">>),
      Str(<<"f", "t", "p", ":", "/", "/", "h">>) }

FetchEnvs ==
    [read : BOOLEAN, exists : BOOLEAN, log : BOOLEAN, content : RowTexts]

FetchInit ==
    /\ input \in [data_source : DataSources, env : FetchEnvs]
    /\ result = None
    /\ again = None
    /\ goals = None
    /\ stage = "in"
    /\ locals = None
    /\ effects = [fetchLog |-> <<>>]
    /\ response = None

\* one call of fetch_data; the fetch log gets the formatted text when the
\* write goes through
FetchData ==
    /\ stage = "in"
    /\ result' = fetch_data(input.data_source, input.env)
    /\ effects' = IF WritesFetchLog(input.data_source, input.env) /\ input.env.log
                  THEN [effects EXCEPT !.fetchLog =
                            Append(@, format_rows_as_lines(input.env.content))]
                  ELSE effects
    /\ stage' = "fetched"
    /\ UNCHANGED <<input, again, goals, locals, response>>

\* one call of _format_rows_as_lines on the text of the source
FormatRows ==
    /\ stage = "in"
    /\ result' = [kind |-> "text", text |-> format_rows_as_lines(input.env.content)]
    /\ stage' = "formatted"
    /\ UNCHANGED <<input, again, goals, rtvars>>

FetchNext == FetchData \/ FormatRows

SpecFetch == FetchInit /\ [][FetchNext]_vars

\* ------------------------------------------------- claims on fetch_data

\* a step of fetch_data failed: the read or the extraction, or the write of
\* the fetch log
FetchStepFailed(ds, env) ==
    \/ FetchBranch(ds) \in {"s3", "url"} /\ ~env.read
    \/ FetchBranch(ds) = "local" /\ env.exists /\ ~env.read
    \/ WritesFetchLog(ds, env) /\ ~env.log

\* C13: fetch_data never raises: for every data_source and every failure of
\* the read, the text extraction or the fetch-log write it returns a dict
\* with a meta.source_type, the failure reported in its error field and
\* raw_text and formatted_text empty.
C13_FetchNeverRaises ==
    (stage = "fetched" /\ input.data_source.t \in {"null", "str"})
        => /\ result.kind = "returned"
           /\ result.source_type \in {"s3", "url", "file", "unknown"}
           /\ FetchStepFailed(input.data_source, input.env)
                => /\ result.error # ""
                   /\ result.raw_text = <<>>
                   /\ result.formatted_text = <<>>

\* C14: fetch_data dispatches on the prefix of the source string, in this
\* order and without regard to case: s3:// gives source_type s3, http:// or
\* https:// gives url, any other source is a local path and gives file when
\* it exists and the unsupported-source error with source_type unknown when
\* it does not; a missing or empty source gives the no-source error with
\* source_type unknown.
C14_DispatchByPrefix ==
    (/\ stage = "fetched"
     /\ input.data_source.t \in {"null", "str"}
     /\ result.kind = "returned")
        => LET ds == input.data_source
               low == IF ds.t = "str" THEN Lower(ds.v) ELSE <<>>
               isS3 == StartsWith(low, T_s3)
               isUrl == StartsWith(low, T_http) \/ StartsWith(low, T_https)
           IN  /\ (ds.t = "null" \/ low = <<>>)
                    => /\ result.error = "No data_source provided."
                       /\ result.source_type = "unknown"
               /\ isS3 => result.source_type = "s3"
               /\ (~isS3 /\ isUrl) => result.source_type = "url"
               /\ (low # <<>> /\ ~isS3 /\ ~isUrl /\ input.env.exists)
                    => result.source_type = "file"
               /\ (low # <<>> /\ ~isS3 /\ ~isUrl /\ ~input.env.exists)
                    => /\ result.error = "Unsupported data_source"
                       /\ result.source_type = "unknown"

\* C14 witness: an upper-case S3:// source was answered as s3
C14_Witness ==
    /\ stage = "fetched"
    /\ input.data_source.t = "str"
    /\ StartsWith(input.data_source.v, <<"S", "3">>)
    /\ result.kind = "returned"
    /\ result.source_type = "s3"
    /\ result.error = ""

C16_DenylistMembership ==
    (input.entry = "analyzer" /\ locals.calls # <<>>)
        => /\ locals.supports_system_prompt = (locals.model_id # Str(Mistral7b))
           /\ locals.supports_tools
                = (locals.model_id # Str(Mistral7b) /\ locals.model_id # Str(Llama70b))

\* C16 witness: a listed identifier written with another first letter counts
\* as unlisted
C16_Witness ==
    /\ input.entry = "analyzer"
    /\ locals.calls # <<>>
    /\ locals.model_id = Str(<<"M">> \o Tail(Llama70b))
    /\ locals.supports_tools
    /\ locals.supports_system_prompt

\* how often the analyzer instructions are in a call
InstructionsIn(call) ==
    (IF call.system_prompt # "none" THEN 1 ELSE 0)
    + Cardinality({i \in 1..Len(call.message) : call.message[i] = "instructions"})

CallFollowsCapabilities(call, st, sp) ==
    /\ InstructionsIn(call) = 1
    /\ sp => call.system_prompt # "none"
    /\ ~sp => \E i \in 1..Len(call.message) : call.message[i] = "instructions"
    /\ call.tools => st

\* C17: in every call the analyzer makes to the model, for each of the four
\* combinations of (supports tools, supports system prompt), with and
\* without an uploaded file, the instructions are in the call exactly once:
\* as the system prompt when the model supports system prompts, inlined in
\* the user message when it does not; tools are attached only when the model
\* supports tools.
C17_InstructionsReachModelOnce ==
    /\ input.entry = "analyzer"
         => \A i \in 1..Len(locals.calls) :
                CallFollowsCapabilities(locals.calls[i], locals.supports_tools,
                                        locals.supports_system_prompt)
    /\ \A st \in BOOLEAN, sp \in BOOLEAN, hasFile \in BOOLEAN,
          attempt \in {"direct", "with_content", "with_error"} :
            CallFollowsCapabilities(AgentCall(st, sp, hasFile, attempt), st, sp)

\* C17 witness: a model without system prompts and tools, an uploaded file,
\* and a second call made after the first one failed
C17_Witness ==
    /\ input.entry = "analyzer"
    /\ Len(locals.calls) = 2
    /\ ~locals.supports_system_prompt
    /\ Truthy(locals.file_path)
    /\ locals.calls[2].message = <<"instructions", "user_input", "error_message">>

\* ------------------------------------------------------ the per-run file

\* C18: after a successful analyzer invocation the per-run file lies at the
\* path made of the base filename of the run's data_source and the sanitized
\* model_id of the run, and holds the model_output of the response.
C18_RunFileNamedAfterRun ==
    (input.entry = "analyzer" /\ stage = "returned" /\ IsStatus(response, 200))
        => LET run  == response.body.model_output
               base == basename_no_ext(run.data_source)
           IN  /\ base.kind = "ok"
               /\ effects.runFile =
                     <<[path    |-> out_path(base.name, run.model_id.v),
                        content |-> run]>>

\* ------------------------------------- analyzer invocations in sequence

MaxInvocations == 2

\* the requests of the sequence: no prompt, a source, a source with an
\* uploaded file, each with the default model
SequenceRequests ==
    {r \in Requests :
        /\ r.entry = "analyzer"
        /\ r.payload.t = "obj"
        /\ ~HasKey(r.payload, T_model_id)
        /\ GetOr(r.payload, T_prompt, Null) \in
              {Str(<<>>), Str(<<" ", "a", " ">>),
               Str(<<UPLOADED_FILE, " ", "f", "]", " ", "a">>)}
        /\ r.file = "absent"}

SequenceInit ==
    /\ input \in SequenceRequests
    /\ result = None
    /\ again = None
    /\ goals = None
    /\ stage = "request"
    /\ locals = NoLocals
    /\ effects = NoEffects
    /\ response = None

\* the runtime takes the next request once invoke has returned: the locals
\* are gone, the files of ./outputs and the responses handed back stay
NextInvocation ==
    /\ stage = "returned"
    /\ Len(effects.returned) < MaxInvocations
    /\ input' \in SequenceRequests
    /\ result' = None
    /\ again' = None
    /\ goals' = None
    /\ stage' = "request"
    /\ locals' = NoLocals
    /\ effects' = [effects EXCEPT !.modelCalls = 0, !.evaluatorCalls = 0,
                                  !.tempFile = input'.file]
    /\ response' = None

output_jsonl == "./outputs/results.jsonl"

\* load_analyzer_runs_v2 (lines 150-161) by what it is handed: the call of
\* _read_jsonl is commented out, so the argument itself is sorted, and a
\* path, being a str, has no sort
load_analyzer_runs_v2_of(analyzer_json_src, limit) ==
    IF analyzer_json_src.t = "str"
    THEN [kind |-> "AttributeError"]
    ELSE [kind |-> "ok",
          runs |-> load_analyzer_runs_v2(analyzer_json_src.v, limit).runs]

\* the plan builder is handed the run log the analyzer appends to (line 176
\* of the tools, with the default limit)
ReloadLog ==
    /\ stage = "returned"
    /\ result' = load_analyzer_runs_v2_of([t |-> "str", v |-> output_jsonl],
                                          DefaultLimit)
    /\ stage' = "reloaded"
    /\ UNCHANGED <<input, again, goals, locals, effects, response>>

SequenceNext ==
    \/ ReadPrompt
    \/ CallModel
    \/ ParseOutput
    \/ NormalizeGoals
    \/ SaveRunFile
    \/ AppendRunLog
    \/ CallEvaluator
    \/ Respond
    \/ NextInvocation
    \/ ReloadLog

SpecSequence == SequenceInit /\ [][SequenceNext]_vars

\* the model_output of the 200 responses among rs, in order
RunsReturned(rs) ==
    LET ok == SelectSeq(rs, LAMBDA r : IsStatus(r, 200))
    IN  [i \in 1..Len(ok) |-> ok[i].body.model_output]

\* C19: no step of a sequence of analyzer invocations changes or removes a
\* record of the run log, and whenever an invocation returns the log holds
\* exactly the model_output of the invocations that returned 200, in
\* invocation order.
C19_LogIsTheRunsReturned ==
    [][/\ \A i \in 1..Len(effects.runLog) :
             /\ i <= Len(effects'.runLog)
             /\ effects'.runLog[i] = effects.runLog[i]
       /\ stage' = "returned"
             => effects'.runLog = RunsReturned(effects'.returned)]_vars

\* two invocations returned: the first 200 and logged, the second not 200
\* after the model was called
C19_Witness ==
    /\ stage = "returned"
    /\ Len(effects.returned) = 2
    /\ IsStatus(effects.returned[1], 200)
    /\ IsStatus(effects.returned[2], 500)
    /\ effects.modelCalls = 1
    /\ effects.runLog = <<effects.returned[1].body.model_output>>

\* C20: the runs appended to the run log, loaded again through the plan
\* builder, come back with every field as it was written.
C20_LogRoundTrip ==
    stage = "reloaded"
        => /\ result.kind = "ok"
           /\ \A i \in 1..Len(effects.runLog) :
                 \E j \in 1..Len(result.runs) : result.runs[j] = effects.runLog[i]

\* ------------------------------------------------ the chained evaluator

\* the chained evaluator call of this invocation failed
EvaluatorFailed ==
    /\ locals.evaluator_result # None
    /\ DOMAIN locals.evaluator_result = {"error"}

\* C22: the run is in the per-run file and at the end of the log before the
\* evaluator is called, and a failure of the evaluator call leaves both as
\* they are and ends in a 200 with the run as model_output and
\* evaluator_result {error: <message>}.
C22_EvaluatorFailureKeepsOutcome ==
    (input.entry = "analyzer" /\ (stage = "logged" \/ effects.evaluatorCalls > 0))
        => /\ effects.runFile # <<>>
           /\ effects.runFile[1].content = locals.output_obj
           /\ effects.runLog = <<locals.output_obj>>
           /\ stage = "logged" => effects.evaluatorCalls = 0
           /\ stage = "returned"
                 => /\ IsStatus(response, 200)
                    /\ response.body.model_output = locals.output_obj
                    /\ response.body.evaluator_result = locals.evaluator_result
                    /\ \/ locals.evaluator_result = [scores |-> "scores"]
                       \/ /\ EvaluatorFailed
                          /\ locals.evaluator_result.error
                                \in EvaluatorOutcomes \ {"scores"}

C22_Witness ==
    /\ stage = "returned"
    /\ EvaluatorFailed
    /\ locals.evaluator_result.error = "unreadable"
    /\ IsStatus(response, 200)
    /\ effects.runLog # <<>>

\* ------------------------------------------------ the diagnostic window

\* the candidate that _coerce_json hands to json.loads
Cleaned(x) == clean_json_str(Candidate(Strip(ResponseText(x))))

\* C24 as stated: on a parse failure the window holds at most 80 characters
\* of the candidate, centered on the error offset, and the error that is
\* propagated carries the window.
C24_WindowOf80Carried ==
    (stage # "in" /\ result.kind = "JSONDecodeError")
        => /\ Len(result.snippet) <= SnippetRadius
           /\ "snippet" \in DOMAIN result.e

\* C24, amended: on a parse failure the window holds the characters of the
\* candidate from 80 before the error offset up to 80 after it, at most 160,
\* and the error propagated is the parser's own, with the candidate and the
\* offset and without the window.
C24_WindowOf160Printed ==
    (stage # "in" /\ result.kind = "JSONDecodeError")
        => LET doc == Cleaned(input)
               lo  == Max2(0, result.pos - SnippetRadius)
               hi  == Min2(Len(doc), result.pos + SnippetRadius)
           IN  /\ result.pos \in 0..Len(doc)
               /\ Len(result.snippet) = hi - lo
               /\ Len(result.snippet) <= 2 * SnippetRadius
               /\ \A i \in 1..(hi - lo) : result.snippet[i] = doc[lo + i]
               /\ result.e = [doc |-> doc, pos |-> result.pos]

\* a window of 160 characters cut out of a longer candidate
C24_Witness ==
    /\ stage = "coerced"
    /\ result.kind = "JSONDecodeError"
    /\ Len(result.snippet) = 2 * SnippetRadius
    /\ Len(result.e.doc) > Len(result.snippet)
    /\ result.pos > SnippetRadius

\* ------------------------------------------------ the type of the result

\* C25: whenever _coerce_json returns, for a string or for a response
\* object, what it returns is a JSON object: never an array, a string, a
\* number or null.
C25_ResultIsObject ==
    (stage # "in" /\ result.kind = "ok") => result.val.t = "obj"

\* a text that is itself a JSON array was coerced to the object inside it
C25_Witness ==
    /\ stage = "coerced"
    /\ input.src = "free"
    /\ json_loads(input.text).ok
    /\ json_loads(input.text).val.t = "arr"
    /\ result.kind = "ok"
    /\ result.val.t = "obj"

\* ------------------------------------------- capabilities, taken together

\* C26: a model that supports tools supports a system prompt, for every
\* model identifier, so no call of the analyzer is made on the "tools but no
\* system prompt" branches: a call with tools never has the instructions
\* inlined in its message.
C26_ToolsImplySystemPrompt ==
    /\ \A m \in ModelIds \cup {Str(MODEL_ID), Null, Num(5)} :
          model_supports_tools(m) => model_supports_system_prompt(m)
    /\ (input.entry = "analyzer" /\ locals.calls # <<>>)
          => /\ locals.supports_tools => locals.supports_system_prompt
             /\ \A i \in 1..Len(locals.calls) :
                   locals.calls[i].tools
                      => /\ locals.calls[i].system_prompt # "none"
                         /\ \A j \in 1..Len(locals.calls[i].message) :
                               locals.calls[i].message[j] # "instructions"

\* the default model, in both lists, was called without tools and without a
\* system prompt
C26_Witness ==
    /\ input.entry = "analyzer"
    /\ stage = "model_returned"
    /\ locals.model_id = Str(MODEL_ID)
    /\ ~locals.supports_tools
    /\ ~locals.supports_system_prompt
    /\ Len(locals.calls) = 1
    /\ ~locals.calls[1].tools

\* ------------------------------------------- runs without a timestamp

SomeRunLacksTimestamp == \E n \in 1..Len(input.runs) : ~input.runs[n].hasTs

Files == {"f1", "f2"}

\* the order in which a pass meets the records of the registry
FileOrder == <<"f1", "f2">>

max_retention_minutes == 2

\* the last minute of the clock
MaxTime == 4

\* how many calls to the storage service, or thread starts, may fail
MaxFailures == 2

NoRegistry == [k \in {} |-> None]

\* registry[k] = rec
Put(registry, k, rec) ==
    [x \in DOMAIN registry \cup {k} |-> IF x = k THEN rec ELSE registry[x]]

\* which calls of one operation go through: get_object, put_object,
\* delete_object, Thread.start
Outcomes == [read : BOOLEAN, save : BOOLEAN, delete : BOOLEAN, start : BOOLEAN]

Failed(c) ==
    (IF c.read THEN 0 ELSE 1) + (IF c.save THEN 0 ELSE 1)
    + (IF c.delete THEN 0 ELSE 1) + (IF c.start THEN 0 ELSE 1)

\* _get_cleanup_registry (lines 73-89): {} when the read fails
get_cleanup_registry(store, ok) == IF ok THEN store.registry ELSE NoRegistry

\* _save_cleanup_registry (lines 91-105): a failure is swallowed
save_cleanup_registry(store, registry, ok) ==
    IF ok THEN [store EXCEPT !.registry = registry] ELSE store

\* _delete_file_now (lines 119-151): the store afterwards and what is
\* returned
delete_file_now(store, file_key, c) ==
    LET s1       == IF c.delete THEN [store EXCEPT !.bucket = @ \ {file_key}]
                    ELSE store
        registry == get_cleanup_registry(s1, c.read)
        status   == IF c.delete THEN "deleted" ELSE "error"
    IN  [store |-> IF file_key \in DOMAIN registry
                   THEN save_cleanup_registry(s1,
                            [registry EXCEPT ![file_key].status = status], c.save)
                   ELSE s1,
         ret   |-> c.delete]

\* the loop of cleanup_overdue_files (lines 164-175) from the n-th key of
\* the registry it read: the store afterwards and deleted_count
RECURSIVE OverduePass(_, _, _, _, _, _)
OverduePass(store, registry, now, cs, n, deleted_count) ==
    IF n > Len(FileOrder) THEN [store |-> store, ret |-> deleted_count]
    ELSE LET file_key == FileOrder[n]
         IN  IF /\ file_key \in DOMAIN registry
                /\ registry[file_key].status = "pending"
                /\ now > registry[file_key].deletion_time
             THEN LET d == delete_file_now(store, file_key, cs[file_key])
                  IN  OverduePass(d.store, registry, now, cs, n + 1,
                                  deleted_count + (IF d.ret THEN 1 ELSE 0))
             ELSE OverduePass(store, registry, now, cs, n + 1, deleted_count)

\* cleanup_overdue_files (lines 153-186)
cleanup_overdue_files(store, now, c, cs) ==
    OverduePass(store, get_cleanup_registry(store, c.read), now, cs, 1, 0)

\* locals: the clock, the sleeping deletion threads with the minute each
\* wakes, the failures so far; response: what register_file_for_cleanup
\* returned for each file; result: the last call, with the outcomes of its
\* storage calls
CleanupInit ==
    /\ input = None
    /\ result = None
    /\ again = None
    /\ goals = None
    /\ stage = "running"
    /\ locals = [now |-> 0, threads |-> NoRegistry, failures |-> 0]
    /\ effects = [bucket |-> {}, registry |-> NoRegistry]
    /\ response = NoRegistry

\* upload_file_to_s3 (main.py lines 108-113) puts the object in the bucket,
\* then register_file_for_cleanup (lines 31-71)
Register(f) ==
    /\ stage = "running"
    /\ f \notin DOMAIN response
    /\ locals.now + max_retention_minutes < MaxTime
    /\ \E c \in Outcomes :
         /\ c.delete
         /\ locals.failures + Failed(c) <= MaxFailures
         /\ LET uploaded == [effects EXCEPT !.bucket = @ \cup {f}]
                registry == get_cleanup_registry(uploaded, c.read)
                file_record == [status |-> "pending",
                                deletion_time |-> locals.now + max_retention_minutes]
            IN  /\ effects' = save_cleanup_registry(uploaded,
                                  Put(registry, f, file_record), c.save)
                /\ locals' = [locals EXCEPT
                       !.failures = @ + Failed(c),
                       !.threads = IF c.start
                                   THEN Put(@, f, locals.now + max_retention_minutes)
                                   ELSE @]
                /\ response' = Put(response, f, c.start)
                /\ result' = [op |-> "register", file |-> f, ret |-> c.start, c |-> c]
    /\ UNCHANGED <<input, again, goals, stage>>

\* delayed_delete (lines 111-113) once its sleep is over
ThreadDelete(f) ==
    /\ stage = "running"
    /\ f \in DOMAIN locals.threads
    /\ locals.now >= locals.threads[f]
    /\ \E c \in Outcomes :
         /\ c.start
         /\ locals.failures + Failed(c) <= MaxFailures
         /\ LET d == delete_file_now(effects, f, c)
            IN  /\ effects' = d.store
                /\ result' = [op |-> "thread", file |-> f, ret |-> d.ret, c |-> c]
         /\ locals' = [locals EXCEPT
                !.failures = @ + Failed(c),
                !.threads = [x \in DOMAIN @ \ {f} |-> @[x]]]
    /\ UNCHANGED <<input, again, goals, stage, response>>

\* a pass of cleanup_overdue_files
CleanupOverdue ==
    /\ stage = "running"
    /\ \E c \in Outcomes, cs \in [Files -> Outcomes] :
         /\ c.save /\ c.delete /\ c.start
         /\ \A f \in Files : cs[f].start
         /\ LET n == Failed(c) + Failed(cs["f1"]) + Failed(cs["f2"])
                d == cleanup_overdue_files(effects, locals.now, c, cs)
            IN  /\ locals.failures + n <= MaxFailures
                /\ effects' = d.store
                /\ locals' = [locals EXCEPT !.failures = @ + n]
                /\ result' = [op |-> "cleanup", file |-> "", ret |-> d.ret, c |-> c]
    /\ UNCHANGED <<input, again, goals, stage, response>>

\* a minute passes
Tick ==
    /\ stage = "running"
    /\ locals.now < MaxTime
    /\ locals' = [locals EXCEPT !.now = @ + 1]
    /\ UNCHANGED <<input, result, again, goals, stage, effects, response>>

CleanupNext ==
    \/ \E f \in Files : Register(f)
    \/ \E f \in Files : ThreadDelete(f)
    \/ CleanupOverdue
    \/ Tick

SpecCleanup == CleanupInit /\ [][CleanupNext]_vars

\* the process stays alive: the clock advances, every deletion thread runs
\* once its sleep is over, and cleanup passes keep being made
SpecCleanupFair ==
    /\ SpecCleanup
    /\ WF_vars(Tick)
    /\ \A f \in Files : WF_vars(ThreadDelete(f))
    /\ WF_vars(CleanupOverdue)

\* --------------------------------------------- claims on the cleanup

RegisteredTrue(f) == f \in DOMAIN response /\ response[f]

RecordedDeleted(f) ==
    /\ f \notin effects.bucket
    /\ f \in DOMAIN effects.registry
    /\ effects.registry[f].status = "deleted"

\* C21: every file for which register_file_for_cleanup returned True is
\* eventually gone from the bucket with its record at status "deleted",
\* also when a first deletion attempt failed.
C21_RegisteredFilesGetDeleted ==
    \A f \in Files : RegisteredTrue(f) ~> RecordedDeleted(f)

\* C27: register_file_for_cleanup returns True only if the record of the
\* file, pending with its deletion_time, is in the stored registry; when the
\* read or the save of the registry fails it returns False, starts no
\* deletion thread and leaves the stored records of other files as they are.
C27_RegisterTrueMeansSaved ==
    [][\A f \in Files :
          (f \notin DOMAIN response /\ f \in DOMAIN response')
             => /\ response'[f]
                   => /\ f \in DOMAIN effects'.registry
                      /\ effects'.registry[f] =
                            [status |-> "pending",
                             deletion_time |-> locals.now + max_retention_minutes]
                /\ (~result'.c.read \/ ~result'.c.save)
                   => /\ ~response'[f]
                      /\ f \notin DOMAIN locals'.threads
                      /\ \A g \in DOMAIN effects.registry :
                            /\ g \in DOMAIN effects'.registry
                            /\ effects'.registry[g] = effects.registry[g]]_vars

\* the record of k is pending and its deletion_time has passed
Overdue(k) ==
    /\ k \in DOMAIN effects.registry
    /\ effects.registry[k].status = "pending"
    /\ locals.now > effects.registry[k].deletion_time

\* C29: a pass of cleanup_overdue_files leaves every record that is not
\* pending and overdue, and its file, as they are; moves a status only from
\* "pending" to "deleted" or "error"; and returns the number of records it
\* moved to "deleted".
C29_OverduePassFrame ==
    [][CleanupOverdue
          => /\ \A k \in Files :
                   ~Overdue(k)
                      => /\ (k \in effects'.bucket) = (k \in effects.bucket)
                         /\ (k \in DOMAIN effects'.registry)
                               = (k \in DOMAIN effects.registry)
                         /\ k \in DOMAIN effects.registry
                               => effects'.registry[k] = effects.registry[k]
             /\ \A k \in DOMAIN effects.registry :
                   /\ k \in DOMAIN effects'.registry
                   /\ effects'.registry[k].status # effects.registry[k].status
                         => /\ effects.registry[k].status = "pending"
                            /\ effects'.registry[k].status \in {"deleted", "error"}
             /\ result'.ret =
                   Cardinality({k \in DOMAIN effects.registry :
                                   /\ effects.registry[k].status = "pending"
                                   /\ effects'.registry[k].status = "deleted"})]_vars

\* ------------------------------- the registry under concurrent threads
\* register_file_for_cleanup runs in the thread of the session that
\* uploaded the file, delayed_delete in a thread of its own; no lock is
\* held.  Each step below is the part of a call up to and including one
\* access to the storage service, which is where threads interleave.
\* locals[f] is the caller working on file f: where it stands (pc) and the
\* registry it holds in its local variable.

Idle == [pc |-> "idle", registry |-> NoRegistry]

ThreadsInit ==
    /\ input = None
    /\ result = None
    /\ again = None
    /\ goals = None
    /\ stage = "threads"
    /\ locals = [f \in Files |-> Idle]
    /\ effects = [bucket |-> {}, registry |-> NoRegistry]
    /\ response = NoRegistry

\* the file is uploaded; lines 40-43: registry = self._get_cleanup_registry()
RegisterRead(f) ==
    /\ stage = "threads"
    /\ locals[f].pc = "idle"
    /\ effects' = [effects EXCEPT !.bucket = @ \cup {f}]
    /\ locals' = [locals EXCEPT ![f] =
           [pc |-> "registering",
            registry |-> get_cleanup_registry(effects, TRUE)]]
    /\ UNCHANGED <<input, result, again, goals, stage, response>>

\* lines 46-67: the record is put in the local registry, the registry is
\* saved, the deletion thread is started, True is returned
RegisterSave(f) ==
    /\ stage = "threads"
    /\ locals[f].pc = "registering"
    /\ effects' = save_cleanup_registry(effects,
                      Put(locals[f].registry, f,
                          [status |-> "pending",
                           deletion_time |-> max_retention_minutes]), TRUE)
    /\ locals' = [locals EXCEPT ![f] = [pc |-> "sleeping", registry |-> NoRegistry]]
    /\ response' = Put(response, f, TRUE)
    /\ UNCHANGED <<input, result, again, goals, stage>>

\* lines 112-128: the sleep is over, delete_object
ThreadDeleteObject(f) ==
    /\ stage = "threads"
    /\ locals[f].pc = "sleeping"
    /\ effects' = [effects EXCEPT !.bucket = @ \ {f}]
    /\ locals' = [locals EXCEPT ![f].pc = "object_deleted"]
    /\ UNCHANGED <<input, result, again, goals, stage, response>>

\* line 131: registry = self._get_cleanup_registry()
ThreadRead(f) ==
    /\ stage = "threads"
    /\ locals[f].pc = "object_deleted"
    /\ locals' = [locals EXCEPT ![f] =
           [pc |-> "updating", registry |-> get_cleanup_registry(effects, TRUE)]]
    /\ UNCHANGED <<input, result, again, goals, stage, effects, response>>

\* lines 132-138: the status is set in the local registry and the registry
\* is saved
ThreadSave(f) ==
    /\ stage = "threads"
    /\ locals[f].pc = "updating"
    /\ effects' = IF f \in DOMAIN locals[f].registry
                  THEN save_cleanup_registry(effects,
                           [locals[f].registry EXCEPT ![f].status = "deleted"], TRUE)
                  ELSE effects
    /\ locals' = [locals EXCEPT ![f] = [pc |-> "done", registry |-> NoRegistry]]
    /\ UNCHANGED <<input, result, again, goals, stage, response>>

ThreadsNext ==
    \/ \E f \in Files : RegisterRead(f)
    \/ \E f \in Files : RegisterSave(f)
    \/ \E f \in Files : ThreadDeleteObject(f)
    \/ \E f \in Files : ThreadRead(f)
    \/ \E f \in Files : ThreadSave(f)

SpecThreads == ThreadsInit /\ [][ThreadsNext]_vars

\* C28: under every interleaving no update of the registry is lost: every
\* file that was registered has a record in the stored registry, and every
\* deletion that completed is recorded with status "deleted".
C28_NoLostUpdate ==
    \A f \in Files :
        /\ f \in DOMAIN response => f \in DOMAIN effects.registry
        /\ locals[f].pc = "done"
              => /\ f \in DOMAIN effects.registry
                 /\ effects.registry[f].status = "deleted"

\* ------------------------------------------------------- the front-end
\* main.py.  effects is st.session_state, a key that is absent or None being
\* None; locals holds the widgets: the file in the uploader and the model
\* chosen; result tells which way the last processing pass went.

UploadedFiles == {[name |-> "a.txt"], [name |-> "b.pdf"]}

\* three of the keys of AVAILABLE_MODELS (lines 47-53), the first being the
\* default of the selectbox
ModelNames ==
    {[name |-> "Claude 3.7 Sonnet"], [name |-> "OpenAI GPT"],
     [name |-> "Amazon Nova Premier"]}

\* how upload_file_to_s3 (lines 88-146) ends: an s3:// URI, the path of the
\* temporary file of its fallback, or the exception of a fallback that
\* cannot write
UploadOutcomes == {"s3", "temp", "raises"}

\* how the call of the agent ends: it raises, or it answers with the HTTP
\* form with a body, with that form without a readable body, or with text
AgentOutcomes == {"raises", "http", "http_unreadable", "text"}

NoSession ==
    [processing |-> FALSE,
     uploaded_file_for_processing |-> None,
     selected_model_for_processing |-> None,
     generated_goals |-> None,
     error_message |-> None]

FrontendInit ==
    /\ input = None
    /\ result = None
    /\ again = None
    /\ goals = None
    /\ stage = "frontend"
    /\ locals = [uploaded_file |-> None, selected_model_name |-> [name |-> "Claude 3.7 Sonnet"]]
    /\ effects = NoSession
    /\ response = None

\* st.file_uploader (lines 317-322): a file is put in or taken out
ChooseFile ==
    /\ stage = "frontend"
    /\ ~effects.processing
    /\ \E f \in UploadedFiles \cup {None} :
         /\ f # locals.uploaded_file
         /\ locals' = [locals EXCEPT !.uploaded_file = f]
    /\ UNCHANGED <<input, result, again, goals, stage, effects, response>>

\* st.selectbox (lines 300-305)
ChooseModel ==
    /\ stage = "frontend"
    /\ ~effects.processing
    /\ \E m \in ModelNames :
         /\ m # locals.selected_model_name
         /\ locals' = [locals EXCEPT !.selected_model_name = m]
    /\ UNCHANGED <<input, result, again, goals, stage, effects, response>>

\* the Generate button (lines 346-355), disabled without a file and while
\* processing
ClickGenerate ==
    /\ stage = "frontend"
    /\ locals.uploaded_file # None
    /\ ~effects.processing
    /\ effects' = [processing |-> TRUE,
                   uploaded_file_for_processing |-> locals.uploaded_file,
                   selected_model_for_processing |-> locals.selected_model_name,
                   error_message |-> None,
                   generated_goals |-> None]
    /\ result' = None
    /\ UNCHANGED <<input, again, goals, stage, locals, response>>

\* the try block of the processing pass (lines 362-482): the session state
\* it leaves.  Everything from the prompt to the stored result is inside the
\* else of the s3:// test, so the temporary-file path only shows a warning.
TryBlock(session, upload, agent) ==
    IF upload = "raises"
    THEN [session EXCEPT !.error_message = [error |-> "upload"]]
    ELSE IF upload = "temp"
    THEN session
    ELSE IF agent = "raises"
    THEN [session EXCEPT !.error_message = [error |-> "agent"]]
    ELSE [session EXCEPT !.generated_goals =
              [goals      |-> IF agent = "http" THEN "smart_goals" ELSE "parsed text",
               model_used |-> session.selected_model_for_processing,
               file_name  |-> session.uploaded_file_for_processing]]

\* the finally block (lines 497-504)
FinallyBlock(session) ==
    [session EXCEPT !.processing = FALSE,
                    !.uploaded_file_for_processing = None,
                    !.selected_model_for_processing = None]

\* the processing pass (lines 358-504) of the rerun that follows the button
Process ==
    /\ stage = "frontend"
    /\ effects.processing
    /\ effects.uploaded_file_for_processing # None
    /\ \E upload \in UploadOutcomes, agent \in AgentOutcomes :
         /\ effects' = FinallyBlock(TryBlock(effects, upload, agent))
         /\ result' = [upload |-> upload,
                       agent  |-> IF upload = "s3" THEN agent ELSE "not called"]
    /\ UNCHANGED <<input, again, goals, stage, locals, response>>

FrontendNext == ChooseFile \/ ChooseModel \/ ClickGenerate \/ Process

SpecFrontend == FrontendInit /\ [][FrontendNext]_vars

\* C30: every processing pass started by the Generate button ends with
\* processing False, the two processing keys removed, and exactly one of
\* generated_goals and error_message set, whichever way the upload went.
C30_PassLeavesOneResult ==
    (stage = "frontend" /\ result # None)
        => /\ ~effects.processing
           /\ effects.uploaded_file_for_processing = None
           /\ effects.selected_model_for_processing = None
           /\ (effects.generated_goals # None) # (effects.error_message # None)

====
